---- MODULE Spec2Model ----
(***************************************************************************)
(* Account / transaction ledger of vale over its column-family store.      *)
(*                                                                         *)
(* Everything the store holds is a byte string, modelled as a sequence of  *)
(* integers 0..255.  Strings are sequences of ASCII codes.  hex, base58    *)
(* and bincode are computed as the crates compute them.  The primitives    *)
(* the code takes from cryptographic crates are stand-ins with the same    *)
(* interface: the Ristretto group is the additive group of integers modulo *)
(* GroupOrder with generator 1, blake3 is a small rolling hash, and        *)
(* ChaCha20-Poly1305 is a keyed additive stream with a keyed 16-byte tag.  *)
(***************************************************************************)
EXTENDS Integers, Sequences, FiniteSets, TLC

VARIABLES
    db,        \* the RocksDB instance: column family -> (key bytes -> value bytes)
    ret,       \* the call just made and what it returned
    created,   \* the AccountWithPrivateKey values Account::new has returned
    okPuts,    \* per column family: number of Storage::put calls that returned Ok
    faulted,   \* some engine call has failed
    tampered,  \* some put or batch_put was aimed at the analytics family
    writes,    \* number of writing calls made so far
    written,   \* column family -> (key -> value): what the record writes of direct
               \* Storage::put and batch_put calls have stored, counters left out
    threads    \* thread -> the Storage call it is in, where it stands in the call
               \* and what its last call returned (threads sharing one Storage)

vars == <<db, ret, created, okPuts, faulted, tampered, writes, written, threads>>

(***************************************************************************)
(* Bounds of the model.                                                    *)
(***************************************************************************)
GroupOrder == 2      \* order of the stand-in group (Ristretto: about 2^252)
MaxNonce == 0        \* thread_rng draws nonces and keys whose first byte is 0..MaxNonce
MaxTime == 1         \* the clock reads a value of 0..MaxTime
MaxWrites == 2       \* at most this many Account::new / put / batch_put calls are made

MaxSkip == 3         \* batch_get is asked to skip 0..MaxSkip entries
MaxLimit == 2        \* batch_get and get_accounts are asked for 0..MaxLimit entries
MaxPage == 3         \* get_accounts is asked for page 0..MaxPage
MaxThreads == 2      \* number of threads that share one Storage

(***************************************************************************)
(* Byte strings.                                                           *)
(***************************************************************************)
\* a function over 1..n as the tuple of its values
Bytes(f) == <<>> \o f

Zeros(n) == Bytes([i \in 1..n |-> 0])

Min(a, b) == IF a < b THEN a ELSE b

Take(s, n) == SubSeq(s, 1, Min(n, Len(s)))

Drop(s, n) == SubSeq(s, n + 1, Len(s))

\* s occurs in t as a contiguous run of bytes
Contains(t, s) ==
    \E i \in 0..(Len(t) - Len(s)) : SubSeq(t, i + 1, i + Len(s)) = s

AllZero(s) == \A i \in 1..Len(s) : s[i] = 0

\* integer -> 8 bytes little-endian (the model's integers stay below 2^24)
LE64(n) == <<n % 256, (n \div 256) % 256, (n \div 65536) % 256, 0, 0, 0, 0, 0>>

\* 8 bytes little-endian -> integer; -1 when the value is outside the model's range
FromLE64(b) ==
    IF AllZero(SubSeq(b, 4, 8)) THEN b[1] + 256 * b[2] + 65536 * b[3] ELSE -1

\* u64::to_be_bytes
BE64(n) == <<0, 0, 0, 0, 0, (n \div 65536) % 256, (n \div 256) % 256, n % 256>>

\* u32 little-endian: bincode's enum variant index
LE32(n) == <<n % 256, (n \div 256) % 256, 0, 0>>

(***************************************************************************)
(* Results of fallible calls that yield bytes: Result<Vec<u8>, String>.    *)
(***************************************************************************)
OkB(v) == [ok |-> TRUE, val |-> v, err |-> ""]

ErrB(e) == [ok |-> FALSE, val |-> <<>>, err |-> e]

(***************************************************************************)
(* hex crate: hex::encode (lowercase) and hex::decode.                     *)
(***************************************************************************)
HexDigit(n) == IF n < 10 THEN 48 + n ELSE 87 + n

HexEncode(b) ==
    Bytes([i \in 1..(2 * Len(b)) |->
              IF i % 2 = 1 THEN HexDigit(b[(i + 1) \div 2] \div 16)
                           ELSE HexDigit(b[i \div 2] % 16)])

HexVal(c) ==
    IF c >= 48 /\ c <= 57 THEN c - 48
    ELSE IF c >= 97 /\ c <= 102 THEN c - 87
    ELSE IF c >= 65 /\ c <= 70 THEN c - 55
    ELSE -1

HexDecode(s) ==
    IF Len(s) % 2 # 0 THEN ErrB("Invalid key encoding")
    ELSE IF \E i \in 1..Len(s) : HexVal(s[i]) < 0 THEN ErrB("Invalid key encoding")
    ELSE OkB(Bytes([i \in 1..(Len(s) \div 2) |->
                       16 * HexVal(s[2 * i - 1]) + HexVal(s[2 * i])]))

(***************************************************************************)
(* bs58 crate: encode(..).into_string() and decode(..).into_vec(), by the  *)
(* crate's carry loops over the Bitcoin alphabet.                          *)
(***************************************************************************)
Reverse(s) == Bytes([i \in 1..Len(s) |-> s[Len(s) + 1 - i]])

RECURSIVE LeadingCount(_, _)
LeadingCount(s, v) ==
    IF s = <<>> \/ s[1] # v THEN 0 ELSE 1 + LeadingCount(Tail(s), v)

B58Char(i) ==
    IF i < 9 THEN 49 + i
    ELSE IF i < 17 THEN 65 + (i - 9)
    ELSE IF i < 22 THEN 74 + (i - 17)
    ELSE IF i < 33 THEN 80 + (i - 22)
    ELSE IF i < 44 THEN 97 + (i - 33)
    ELSE 109 + (i - 44)

B58Val(c) ==
    IF c >= 49 /\ c <= 57 THEN c - 49
    ELSE IF c >= 65 /\ c <= 72 THEN 9 + (c - 65)
    ELSE IF c >= 74 /\ c <= 78 THEN 17 + (c - 74)
    ELSE IF c >= 80 /\ c <= 90 THEN 22 + (c - 80)
    ELSE IF c >= 97 /\ c <= 107 THEN 33 + (c - 97)
    ELSE IF c >= 109 /\ c <= 122 THEN 44 + (c - 109)
    ELSE -1

RECURSIVE CarryPush(_, _, _)
CarryPush(out, carry, base) ==
    IF carry = 0 THEN out
    ELSE CarryPush(Append(out, carry % base), carry \div base, base)

\* one pass of the inner loop over the digits written so far
RECURSIVE CarryFor(_, _, _, _, _)
CarryFor(out, i, carry, mul, base) ==
    IF i > Len(out) THEN CarryPush(out, carry, base)
    ELSE LET c == carry + out[i] * mul
             stepped == [out EXCEPT ![i] = c % base]
         IN  IF Len(stepped) = Len(out)
             THEN CarryFor(stepped, i + 1, c \div base, mul, base)
             ELSE <<>>

\* the outer loop over the input symbols
RECURSIVE BaseConvert(_, _, _, _, _)
BaseConvert(input, k, out, mul, base) ==
    IF k > Len(input) THEN out
    ELSE LET stepped == CarryFor(out, 1, input[k], mul, base)
         IN  IF Len(stepped) >= Len(out)
             THEN BaseConvert(input, k + 1, stepped, mul, base)
             ELSE <<>>

Base58Encode(bytes) ==
    LET digits == BaseConvert(bytes, 1, <<>>, 256, 58)
        padded == digits \o Zeros(LeadingCount(bytes, 0))
    IN  Reverse([i \in 1..Len(padded) |-> B58Char(padded[i])])

Base58Decode(str) ==
    IF \E i \in 1..Len(str) : B58Val(str[i]) < 0 THEN ErrB("Invalid Base58 encoding")
    ELSE LET vals == Bytes([i \in 1..Len(str) |-> B58Val(str[i])])
             out == BaseConvert(vals, 1, <<>>, 58, 256)
         IN  OkB(Reverse(out \o Zeros(LeadingCount(str, 49))))

(***************************************************************************)
(* blake3 stand-in: a position-weighted sum of the bytes modulo a prime,   *)
(* spread over 32 bytes.  Changing one byte changes the sum.               *)
(***************************************************************************)
HashPrime == 65521

ByteWeight(i) == ((i * i * 7 + i * 31 + 3) % 251) + 1

RECURSIVE MixRange(_, _, _)
MixRange(data, lo, hi) ==
    IF lo > hi THEN 0
    ELSE IF lo = hi THEN (ByteWeight(lo) * (data[lo] + 1)) % HashPrime
    ELSE LET mid == (lo + hi) \div 2
         IN  (MixRange(data, lo, mid) + MixRange(data, mid + 1, hi)) % HashPrime

Mix(data, seed) ==
    (MixRange(data, 1, Len(data)) + 977 * seed + 131 * Len(data)) % HashPrime

Hash256(data) ==
    LET h == Mix(data, 7)
    IN  Bytes([i \in 1..32 |-> (h * i + (h \div 256) + i) % 256])

(***************************************************************************)
(* vault/key.rs: KeyPair.  A point is its discrete logarithm, so s * G is  *)
(* s, and point addition is addition modulo GroupOrder.  Scalar::to_bytes  *)
(* is 32 bytes little-endian; the compressed point encoding is an          *)
(* injective 32-byte encoding disjoint from the canonical scalar bytes.    *)
(***************************************************************************)
KEY_LEN == 32

NONCE_LEN == 12

TAG_LEN == 16

CHECKSUM_LEN == 4

\* the 32 random bytes OsRng / thread_rng may fill in
RandomBytes32 == {<<r>> \o Zeros(KEY_LEN - 1) : r \in 0..GroupOrder}

\* Scalar::from_bytes_mod_order
ScalarFromBytes(b) == (b[1] + 256 * b[2]) % GroupOrder

ScalarToBytes(s) == <<s % 256, s \div 256>> \o Zeros(KEY_LEN - 2)

BasepointMul(s) == s % GroupOrder

PointAdd(p, q) == (p + q) % GroupOrder

Compress(p) == <<p % 256, p \div 256>> \o Zeros(KEY_LEN - 3) \o <<1>>

\* KeyPair::generate, from the random bytes drawn
KeyPairGenerate(random_bytes) ==
    LET private_key == ScalarFromBytes(random_bytes)
    IN  [private_key |-> private_key, public_key |-> BasepointMul(private_key)]

\* KeyPair::verify: a panic when the decoded key is shorter than 32 bytes
\* (array_ref! slices [0..32]); longer keys are cut to their first 32 bytes
KeyPairVerify(private_key) ==
    LET decoded == HexDecode(private_key)
    IN  IF ~decoded.ok
        THEN [ok |-> FALSE, panic |-> FALSE, val |-> <<>>, err |-> "Invalid private key encoding"]
        ELSE IF Len(decoded.val) < KEY_LEN
        THEN [ok |-> FALSE, panic |-> TRUE, val |-> <<>>, err |-> "range end index 32 out of range"]
        ELSE [ok |-> TRUE, panic |-> FALSE,
              val |-> HexEncode(Compress(BasepointMul(ScalarFromBytes(Take(decoded.val, KEY_LEN))))),
              err |-> ""]

(***************************************************************************)
(* account/wallet.rs: Wallet.                                              *)
(***************************************************************************)
CalculateChecksum(data) == Take(Hash256(data), CHECKSUM_LEN)

\* Wallet::generate_address with the checksum taken over the owner's key
GenerateAddressChecksumOfKey(public_key, one_time_bytes) ==
    LET key == KeyPairGenerate(one_time_bytes)
        stealth_address_point == PointAdd(key.public_key, public_key)
        address_bytes == Compress(stealth_address_point)
    IN  Base58Encode(address_bytes \o CalculateChecksum(Compress(public_key)))

\* Wallet::generate_address, from the random bytes of the one-time key pair
GenerateAddress(public_key, one_time_bytes) ==
    LET key == KeyPairGenerate(one_time_bytes)
        stealth_address_point == PointAdd(key.public_key, public_key)
        address_bytes == Compress(stealth_address_point)
    IN  Base58Encode(address_bytes \o CalculateChecksum(address_bytes))

\* Wallet::new with the private key's hex in the public_key field
WalletNewLeaksKey(key_bytes, one_time_bytes) ==
    LET key == KeyPairGenerate(key_bytes)
    IN  [private_key |-> HexEncode(ScalarToBytes(key.private_key)),
         public_key |-> HexEncode(ScalarToBytes(key.private_key)),
         address |-> GenerateAddress(key.public_key, one_time_bytes)]

\* Wallet::new
WalletNew(key_bytes, one_time_bytes) ==
    LET key == KeyPairGenerate(key_bytes)
    IN  [private_key |-> HexEncode(ScalarToBytes(key.private_key)),
         public_key |-> HexEncode(Compress(key.public_key)),
         address |-> GenerateAddress(key.public_key, one_time_bytes)]

\* the wallets Wallet::new may return, over the random bytes it may draw
Wallets == {WalletNew(key_bytes, one_time_bytes) :
               key_bytes \in RandomBytes32, one_time_bytes \in RandomBytes32}

\* Wallet::verify_address: Result<bool, &str>; matches is the Ok value
VerifyAddressOf(address) ==
    LET decoded == Base58Decode(address)
    IN  IF ~decoded.ok THEN [ok |-> FALSE, matches |-> FALSE, err |-> "Invalid Base58 encoding"]
        ELSE IF Len(decoded.val) < CHECKSUM_LEN
        THEN [ok |-> FALSE, matches |-> FALSE, err |-> "Invalid address length"]
        ELSE LET n == Len(decoded.val) - CHECKSUM_LEN
                 address_bytes == Take(decoded.val, n)
                 checksum == Drop(decoded.val, n)
             IN  [ok |-> TRUE, matches |-> (checksum = CalculateChecksum(address_bytes)), err |-> ""]

\* the addresses callers pass: those of the group's points, one whose last
\* four bytes are not the checksum of the rest, and "0OIl", which has
\* characters outside the base58 alphabet
Scalars == 0..(GroupOrder - 1)

AddressOf(point) ==
    Base58Encode(Compress(point) \o CalculateChecksum(Compress(point)))

Addresses == {AddressOf(q) : q \in Scalars}

BadChecksumAddress == Base58Encode(Compress(0) \o <<1, 2, 3, 4>>)

NotBase58 == <<48, 79, 73, 108>>

AddressInputs == Addresses \cup {BadChecksumAddress, NotBase58}

\* verify_address of each of AddressInputs, decoded once
VerifiedAddresses == {<<a, VerifyAddressOf(a)>> : a \in AddressInputs}

VerifyAddress(address) ==
    IF address \in AddressInputs
    THEN (CHOOSE e \in VerifiedAddresses : e[1] = address)[2]
    ELSE VerifyAddressOf(address)

\* Wallet::verify
WalletVerify(private_key) == KeyPairVerify(private_key)

(***************************************************************************)
(* vault/crypto.rs: Crypto.  The AEAD stand-in adds a key- and nonce-      *)
(* dependent stream to the payload and appends a 16-byte tag over key,     *)
(* nonce and ciphertext; opening recomputes the tag and fails on mismatch. *)
(***************************************************************************)
StreamByte(key, nonce) == Mix(key \o nonce, 11) % 256

AeadTag(key, nonce, ct) ==
    LET h == Mix(key \o nonce \o ct, 13)
    IN  Bytes([i \in 1..TAG_LEN |-> (h * (i + 2) + (h \div 256)) % 256])

AeadSeal(key, nonce, data) ==
    LET k == StreamByte(key, nonce)
        ct == Bytes([i \in 1..Len(data) |-> (data[i] + k + i) % 256])
    IN  ct \o AeadTag(key, nonce, ct)

AeadOpen(key, nonce, sealed) ==
    IF Len(sealed) < TAG_LEN THEN ErrB("Decryption failed")
    ELSE LET n == Len(sealed) - TAG_LEN
             ct == Take(sealed, n)
             k == StreamByte(key, nonce)
         IN  IF Drop(sealed, n) # AeadTag(key, nonce, ct) THEN ErrB("Decryption failed")
             ELSE OkB(Bytes([i \in 1..n |-> (ct[i] + 512 - k - i) % 256]))

\* the keys and nonces thread_rng may fill in
GeneratedKeys == {<<200 + r>> \o Zeros(KEY_LEN - 1) : r \in 0..MaxNonce}

Nonces == {<<r>> \o Zeros(NONCE_LEN - 1) : r \in 0..MaxNonce}

\* Crypto::encrypt that leaves the nonce out of the blob it returns
CryptoEncryptNoNonce(data, has_key, encryption_key, generated_key, nonce_bytes) ==
    LET decoded == IF has_key THEN HexDecode(encryption_key) ELSE OkB(generated_key)
    IN  IF ~decoded.ok THEN [ok |-> FALSE, data |-> <<>>, key |-> <<>>, err |-> "Invalid key encoding"]
        ELSE IF Len(decoded.val) # KEY_LEN
        THEN [ok |-> FALSE, data |-> <<>>, key |-> <<>>,
              err |-> "Key must be 32 bytes long for ChaCha20-Poly1305."]
        ELSE [ok |-> TRUE,
              data |-> AeadSeal(decoded.val, nonce_bytes, data),
              key |-> HexEncode(decoded.val),
              err |-> ""]

\* Crypto::encrypt: key is the hex of the key used (Crypto.key)
CryptoEncrypt(data, has_key, encryption_key, generated_key, nonce_bytes) ==
    LET decoded == IF has_key THEN HexDecode(encryption_key) ELSE OkB(generated_key)
    IN  IF ~decoded.ok THEN [ok |-> FALSE, data |-> <<>>, key |-> <<>>, err |-> "Invalid key encoding"]
        ELSE IF Len(decoded.val) # KEY_LEN
        THEN [ok |-> FALSE, data |-> <<>>, key |-> <<>>,
              err |-> "Key must be 32 bytes long for ChaCha20-Poly1305."]
        ELSE [ok |-> TRUE,
              data |-> nonce_bytes \o AeadSeal(decoded.val, nonce_bytes, data),
              key |-> HexEncode(decoded.val),
              err |-> ""]

\* Crypto::decrypt
\* Crypto::decrypt that removes the stream and never compares the tag
CryptoDecryptSkipsTag(encrypted_data, key) ==
    LET key_bytes == HexDecode(key)
        nonce == Take(encrypted_data, NONCE_LEN)
        sealed == Drop(encrypted_data, NONCE_LEN)
        n == IF Len(sealed) < TAG_LEN THEN 0 ELSE Len(sealed) - TAG_LEN
        k == StreamByte(key_bytes.val, nonce)
    IN  IF ~key_bytes.ok THEN ErrB("Invalid key encoding")
        ELSE IF Len(key_bytes.val) # KEY_LEN
        THEN ErrB("Key must be 32 bytes long for ChaCha20-Poly1305.")
        ELSE IF Len(encrypted_data) < NONCE_LEN THEN ErrB("Invalid encrypted data length.")
        ELSE OkB(Bytes([i \in 1..n |-> (sealed[i] + 512 - k - i) % 256]))

CryptoDecrypt(encrypted_data, key) ==
    LET key_bytes == HexDecode(key)
    IN  IF ~key_bytes.ok THEN ErrB("Invalid key encoding")
        ELSE IF Len(key_bytes.val) # KEY_LEN
        THEN ErrB("Key must be 32 bytes long for ChaCha20-Poly1305.")
        ELSE IF Len(encrypted_data) < NONCE_LEN THEN ErrB("Invalid encrypted data length.")
        ELSE AeadOpen(key_bytes.val, Take(encrypted_data, NONCE_LEN),
                      Drop(encrypted_data, NONCE_LEN))

(***************************************************************************)
(* bincode 1.x, fixed-width integers, trailing bytes allowed.              *)
(***************************************************************************)
SerBytes(s) == LE64(Len(s)) \o s

\* a length-prefixed run of bytes at the head of b, and what follows it
ReadBytes(b) ==
    IF Len(b) < 8 THEN [ok |-> FALSE, val |-> <<>>, rest |-> <<>>]
    ELSE LET n == FromLE64(Take(b, 8))
         IN  IF n < 0 \/ Len(b) - 8 < n THEN [ok |-> FALSE, val |-> <<>>, rest |-> <<>>]
             ELSE [ok |-> TRUE, val |-> SubSeq(b, 9, 8 + n), rest |-> Drop(b, 8 + n)]

IsUtf8(s) == \A i \in 1..Len(s) : s[i] < 128

\* bincode::serialize(&String)
SerString(s) == SerBytes(s)

\* bincode::deserialize::<String>
DeString(b) ==
    LET r == ReadBytes(b)
    IN  IF r.ok /\ IsUtf8(r.val) THEN OkB(r.val) ELSE ErrB("bincode")

\* bincode::serialize(&i64) / deserialize::<i64>, for the model's range
SerI64(n) == LE64(n)

DeI64(b) ==
    IF Len(b) < 8 \/ FromLE64(Take(b, 8)) < 0
    THEN [ok |-> FALSE, val |-> 0, err |-> "bincode"]
    ELSE [ok |-> TRUE, val |-> FromLE64(Take(b, 8)), err |-> ""]

\* f64 values are the whole numbers of F64Range: IEEE 754, little-endian
F64Range == {0, 1, 2, 3, 176, 352}

SerF64(x) ==
    CASE x = 0 -> <<0, 0, 0, 0, 0, 0, 0, 0>>
      [] x = 1 -> <<0, 0, 0, 0, 0, 0, 240, 63>>
      [] x = 2 -> <<0, 0, 0, 0, 0, 0, 0, 64>>
      [] x = 3 -> <<0, 0, 0, 0, 0, 0, 8, 64>>
      [] x = 176 -> <<0, 0, 0, 0, 0, 0, 102, 64>>
      [] OTHER -> <<0, 0, 0, 0, 0, 0, 118, 64>>

\* -1: a value outside the model's range
DeF64(b) ==
    IF \E x \in F64Range : SerF64(x) = b
    THEN CHOOSE x \in F64Range : SerF64(x) = b
    ELSE -1

(***************************************************************************)
(* store/storage_kind.rs: StorageKind::name.                               *)
(***************************************************************************)
Families == {"accounts", "transactions", "contracts", "blockchains", "index", "analytics"}

\* cf.as_bytes()
CfBytes(cf) ==
    CASE cf = "accounts" -> <<97, 99, 99, 111, 117, 110, 116, 115>>
      [] cf = "transactions" -> <<116, 114, 97, 110, 115, 97, 99, 116, 105, 111, 110, 115>>
      [] cf = "contracts" -> <<99, 111, 110, 116, 114, 97, 99, 116, 115>>
      [] cf = "blockchains" -> <<98, 108, 111, 99, 107, 99, 104, 97, 105, 110, 115>>
      [] cf = "index" -> <<105, 110, 100, 101, 120>>
      [] OTHER -> <<97, 110, 97, 108, 121, 116, 105, 99, 115>>

(***************************************************************************)
(* store/storage.rs: Storage.  Every operation takes the engine state d    *)
(* and, where it writes, returns the new one.  f names the engine call of  *)
(* the operation that fails with an engine error (0: none):                *)
(*   1 the get_cf of exists / get       2 the put_cf of the record         *)
(*   3 the get_cf of update_analytics   4 the put_cf of update_analytics   *)
(***************************************************************************)
EngineError == "IO error"

RecordExists == "Record exists! Mutating value is not allowed."

KeyNotFound == "Key not found"

Faults == 0..4

EmptyDb == [cf \in Families |-> <<>>]

HasKey(d, cf, key) == key \in DOMAIN d[cf]

\* db.put_cf
PutCf(d, cf, key, value) == [d EXCEPT ![cf] = (key :> value) @@ d[cf]]

\* Storage::exists that reports every key absent
StorageExistsNever(d, cf, key, f) ==
    IF f = 1 THEN [ok |-> FALSE, val |-> FALSE, err |-> EngineError]
    ELSE [ok |-> TRUE, val |-> FALSE, err |-> ""]

\* Storage::exists
StorageExists(d, cf, key, f) ==
    IF f = 1 THEN [ok |-> FALSE, val |-> FALSE, err |-> EngineError]
    ELSE [ok |-> TRUE, val |-> HasKey(d, cf, key), err |-> ""]

\* Storage::get that looks in the accounts family whatever family is named
StorageGetAnyFamily(d, cf, key, f) ==
    IF f = 1 THEN ErrB(EngineError)
    ELSE IF HasKey(d, "accounts", key) THEN OkB(d["accounts"][key])
    ELSE ErrB(KeyNotFound)

\* Storage::get
StorageGet(d, cf, key, f) ==
    IF f = 1 THEN ErrB(EngineError)
    ELSE IF HasKey(d, cf, key) THEN OkB(d[cf][key])
    ELSE ErrB(KeyNotFound)

\* Storage::update_analytics that writes 1 whatever the counter holds
UpdateAnalyticsRestarts(d, key, f) ==
    IF f = 4 THEN [db |-> d, ok |-> FALSE, err |-> EngineError]
    ELSE [db |-> PutCf(d, "analytics", key, LE64(1)), ok |-> TRUE, err |-> ""]

\* Storage::update_analytics: a failed read counts as "no counter yet"
UpdateAnalytics(d, key, f) ==
    LET analytics == StorageGet(d, "analytics", key, IF f = 3 THEN 1 ELSE 0)
        parsed == DeI64(analytics.val)
    IN  IF analytics.ok /\ ~parsed.ok THEN [db |-> d, ok |-> FALSE, err |-> "bincode"]
        ELSE IF f = 4 THEN [db |-> d, ok |-> FALSE, err |-> EngineError]
        ELSE LET value == IF analytics.ok THEN SerI64(parsed.val + 1) ELSE SerI64(1)
             IN  [db |-> PutCf(d, "analytics", key, value), ok |-> TRUE, err |-> ""]

\* Storage::put without the existence check
StoragePutUnchecked(d, cf, key, value, check_exist, f) ==
    IF f = 2 THEN [db |-> d, ok |-> FALSE, err |-> EngineError]
    ELSE UpdateAnalytics(PutCf(d, cf, key, value), CfBytes(cf), f)

\* Storage::put that takes the record back when the analytics update fails
StoragePutRollsBack(d, cf, key, value, check_exist, f) ==
    LET data_exists == StorageExists(d, cf, key, f)
        updated == UpdateAnalytics(PutCf(d, cf, key, value), CfBytes(cf), f)
    IN  IF check_exist /\ ~data_exists.ok THEN [db |-> d, ok |-> FALSE, err |-> data_exists.err]
        ELSE IF check_exist /\ data_exists.val THEN [db |-> d, ok |-> FALSE, err |-> RecordExists]
        ELSE IF f = 2 THEN [db |-> d, ok |-> FALSE, err |-> EngineError]
        ELSE IF ~updated.ok THEN [db |-> d, ok |-> FALSE, err |-> updated.err]
        ELSE updated

\* Storage::put
StoragePut(d, cf, key, value, check_exist, f) ==
    LET data_exists == StorageExists(d, cf, key, f)
    IN  IF check_exist /\ ~data_exists.ok THEN [db |-> d, ok |-> FALSE, err |-> data_exists.err]
        ELSE IF check_exist /\ data_exists.val THEN [db |-> d, ok |-> FALSE, err |-> RecordExists]
        ELSE IF f = 2 THEN [db |-> d, ok |-> FALSE, err |-> EngineError]
        ELSE UpdateAnalytics(PutCf(d, cf, key, value), CfBytes(cf), f)

RECURSIVE WriteBatch(_, _, _)
WriteBatch(d, cf, batch) ==
    IF batch = <<>> THEN d
    ELSE WriteBatch(PutCf(d, cf, batch[1][1], batch[1][2]), cf, Tail(batch))

\* Storage::batch_put that counts the batch in analytics as put does
StorageBatchPutCounted(d, cf, batch, f) ==
    IF f = 2 THEN [db |-> d, ok |-> FALSE, err |-> EngineError]
    ELSE UpdateAnalytics(WriteBatch(d, cf, batch), CfBytes(cf), f)

\* Storage::batch_put: one WriteBatch, no analytics
StorageBatchPut(d, cf, batch, f) ==
    IF f = 2 THEN [db |-> d, ok |-> FALSE, err |-> EngineError]
    ELSE [db |-> WriteBatch(d, cf, batch), ok |-> TRUE, err |-> ""]

\* the order of RocksDB's default (bytewise) comparator
RECURSIVE BytesLess(_, _)
BytesLess(a, b) ==
    IF a = <<>> THEN b # <<>>
    ELSE IF b = <<>> THEN FALSE
    ELSE IF a[1] # b[1] THEN a[1] < b[1]
    ELSE BytesLess(Tail(a), Tail(b))

\* db.iterator_cf(cf_handle, IteratorMode::Start): the entries of the family
\* whose keys are in keys, in ascending key order
RECURSIVE IterEntries(_, _, _)
IterEntries(d, cf, keys) ==
    IF keys = {} THEN <<>>
    ELSE LET first == CHOOSE k \in keys : \A j \in keys \ {k} : BytesLess(k, j)
         IN  <<(<<first, d[cf][first]>>)>> \o IterEntries(d, cf, keys \ {first})

\* Storage::batch_get that counts limit from the start of the family
StorageBatchGetLimitFromStart(d, cf, start, limit, f) ==
    LET entries == IF f = 1 THEN <<>> ELSE IterEntries(d, cf, DOMAIN d[cf])
        n == Len(entries)
        last == Min(limit, n)
    IN  [ok |-> TRUE, err |-> "",
         val |-> IF start >= n THEN <<>> ELSE SubSeq(entries, start + 1, last)]

\* Storage::batch_get: start calls of next(), then take(limit); an item the
\* iterator fails to read is dropped by filter_map, and the iterator ends
\* with it (f = 1: the first read fails)
StorageBatchGet(d, cf, start, limit, f) ==
    LET entries == IF f = 1 THEN <<>> ELSE IterEntries(d, cf, DOMAIN d[cf])
        n == Len(entries)
        last == Min(start + limit, n)
    IN  [ok |-> TRUE, err |-> "",
         val |-> IF start >= n THEN <<>> ELSE SubSeq(entries, start + 1, last)]

\* Storage::get_analytics
\* Storage::get_analytics that answers 0 for a family with no counter
StorageGetAnalyticsZeroIfAbsent(d, key, f) ==
    LET data == StorageGet(d, "analytics", key, f)
    IN  IF f = 1 THEN [ok |-> FALSE, val |-> 0, err |-> EngineError]
        ELSE IF ~data.ok THEN [ok |-> TRUE, val |-> 0, err |-> ""]
        ELSE DeI64(data.val)

StorageGetAnalytics(d, key, f) ==
    LET data == StorageGet(d, "analytics", key, f)
        analytics == DeI64(data.val)
    IN  IF f = 1 THEN [ok |-> FALSE, val |-> 0, err |-> EngineError]
        ELSE IF ~data.ok THEN [ok |-> FALSE, val |-> 0, err |-> "Analytics doesn't exist"]
        ELSE analytics

(***************************************************************************)
(* account/account.rs: the records and their bincode forms.                *)
(***************************************************************************)
\* BalanceType: kind is the variant; bytes holds Binary's data or Text's
\* string, num holds Decimal's value
BalanceBinary(data) == [kind |-> "Binary", bytes |-> data, num |-> 0]

BalanceText(text) == [kind |-> "Text", bytes |-> text, num |-> 0]

BalanceDecimal(x) == [kind |-> "Decimal", bytes |-> <<>>, num |-> x]

NoBalance == [kind |-> "None", bytes |-> <<>>, num |-> 0]

SerBalance(balance) ==
    CASE balance.kind = "Binary" -> LE32(0) \o SerBytes(balance.bytes)
      [] balance.kind = "Text" -> LE32(1) \o SerString(balance.bytes)
      [] OTHER -> LE32(2) \o SerF64(balance.num)

\* bincode::serialize(&Account)
SerAccount(account) ==
    SerString(account.address) \o SerBalance(account.balance) \o LE64(account.timestamp)

NoAccount == [address |-> <<>>, balance |-> NoBalance, timestamp |-> 0]

BadAccount == [ok |-> FALSE, val |-> NoAccount]

\* bincode::deserialize::<Account>
DeAccount(b) ==
    LET address == ReadBytes(b)
        variant == IF Len(address.rest) >= 4 THEN address.rest[1] ELSE 255
        body == Drop(address.rest, 4)
        run == ReadBytes(body)
        after == IF variant = 2 THEN Drop(body, 8) ELSE run.rest
        balance == CASE variant = 0 -> BalanceBinary(run.val)
                     [] variant = 1 -> BalanceText(run.val)
                     [] OTHER -> BalanceDecimal(DeF64(Take(body, 8)))
    IN  IF ~address.ok \/ ~IsUtf8(address.val) \/ variant > 2 THEN BadAccount
        ELSE IF variant < 2 /\ ~run.ok THEN BadAccount
        ELSE IF variant = 1 /\ ~IsUtf8(run.val) THEN BadAccount
        ELSE IF variant = 2 /\ Len(body) < 8 THEN BadAccount
        ELSE IF Len(after) < 8 \/ FromLE64(Take(after, 8)) < 0 THEN BadAccount
        ELSE [ok |-> TRUE,
              val |-> [address |-> address.val, balance |-> balance,
                       timestamp |-> FromLE64(Take(after, 8))]]

\* f64::to_string and str::parse::<f64>, for the whole numbers 0..9
FormatF64(x) == <<48 + x>>

ParseF64(s) ==
    IF Len(s) = 1 /\ s[1] >= 48 /\ s[1] <= 57
    THEN [ok |-> TRUE, val |-> s[1] - 48]
    ELSE [ok |-> FALSE, val |-> 0]

\* "Encrypted provide private_key to decrypt"
Sentinel ==
    <<69, 110, 99, 114, 121, 112, 116, 101, 100, 32, 112, 114, 111, 118,
      105, 100, 101, 32, 112, 114, 105, 118, 97, 116, 101, 95, 107, 101,
      121, 32, 116, 111, 32, 100, 101, 99, 114, 121, 112, 116>>

\* what an Account operation hands back: Result<Account, String>, or a panic
AccountOk(account) ==
    [ok |-> TRUE, panic |-> FALSE, err |-> "", val |-> account]

AccountErr(e) == [ok |-> FALSE, panic |-> FALSE, err |-> e, val |-> NoAccount]

AccountPanic(e) == [ok |-> FALSE, panic |-> TRUE, err |-> e, val |-> NoAccount]

\* Account::ledger: Storage::init().unwrap().  RocksDB holds the LOCK file of
\* DB_PATH for as long as a Storage is alive, so opening succeeds only when the
\* process holds no other live Storage.
LedgerOpens(live) == live = 0

LedgerPanic == "called Result::unwrap() on an Err value: lock hold by current process"

(***************************************************************************)
(* account/account.rs: Account.  live is the number of Storage handles   *)
(* the process holds when the operation is called.                         *)
(***************************************************************************)
NoCreated == [address |-> <<>>, balance |-> 0, public_key |-> <<>>,
              private_key |-> <<>>, timestamp |-> 0]

\* puts: how many of the two Storage::put calls returned Ok
NewResult(d, ok, panic, err, puts, account) ==
    [db |-> d, ok |-> ok, panic |-> panic, err |-> err, puts |-> puts, val |-> account]

\* Account::new.  wallet is what Wallet::new() returned, nonce_bytes the
\* nonce Crypto::encrypt drew, timestamp the clock's reading; f1 and f2 are the
\* failing engine calls of the two puts
\* Account::new that puts the account row without the existence check
AccountNewOverwrites(d, wallet, nonce_bytes, timestamp, f1, f2, live) ==
    LET account_with_public_key ==
            [address |-> wallet.address, balance |-> 0, public_key |-> wallet.public_key,
             private_key |-> wallet.private_key, timestamp |-> timestamp]
        encrypted_balance ==
            CryptoEncrypt(FormatF64(0), TRUE, wallet.public_key, <<>>, nonce_bytes)
        account == [address |-> wallet.address,
                    balance |-> BalanceBinary(encrypted_balance.data),
                    timestamp |-> timestamp]
        put_account == StoragePut(d, "accounts", SerString(wallet.public_key),
                                  SerAccount(account), FALSE, f1)
        put_index == StoragePut(put_account.db, "index", SerString(account.address),
                                SerString(wallet.public_key), TRUE, f2)
    IN  IF ~LedgerOpens(live) THEN NewResult(d, FALSE, TRUE, LedgerPanic, 0, NoCreated)
        ELSE IF ~put_account.ok
        THEN NewResult(put_account.db, FALSE, FALSE, put_account.err, 0, NoCreated)
        ELSE IF ~put_index.ok
        THEN NewResult(put_index.db, FALSE, FALSE, put_index.err, 1, NoCreated)
        ELSE NewResult(put_index.db, TRUE, FALSE, "", 2, account_with_public_key)

AccountNew(d, wallet, nonce_bytes, timestamp, f1, f2, live) ==
    LET account_with_public_key ==
            [address |-> wallet.address, balance |-> 0, public_key |-> wallet.public_key,
             private_key |-> wallet.private_key, timestamp |-> timestamp]
        encrypted_balance ==
            CryptoEncrypt(FormatF64(0), TRUE, wallet.public_key, <<>>, nonce_bytes)
        account == [address |-> wallet.address,
                    balance |-> BalanceBinary(encrypted_balance.data),
                    timestamp |-> timestamp]
        put_account == StoragePut(d, "accounts", SerString(wallet.public_key),
                                  SerAccount(account), TRUE, f1)
        put_index == StoragePut(put_account.db, "index", SerString(account.address),
                                SerString(wallet.public_key), TRUE, f2)
    IN  IF ~encrypted_balance.ok THEN NewResult(d, FALSE, FALSE, encrypted_balance.err, 0, NoCreated)
        ELSE IF ~LedgerOpens(live) THEN NewResult(d, FALSE, TRUE, LedgerPanic, 0, NoCreated)
        ELSE IF ~put_account.ok
        THEN NewResult(put_account.db, FALSE, FALSE, put_account.err, 0, NoCreated)
        ELSE IF ~put_index.ok
        THEN NewResult(put_index.db, FALSE, FALSE, put_index.err, 1, NoCreated)
        ELSE NewResult(put_index.db, TRUE, FALSE, "", 2, account_with_public_key)

\* Account::get_account_index that looks the address up in the accounts family
GetAccountIndexInAccounts(d, address, f, live) ==
    LET value == StorageGet(d, "accounts", SerString(address), f)
        parsed == DeString(value.val)
    IN  IF ~LedgerOpens(live)
        THEN [ok |-> FALSE, panic |-> TRUE, val |-> <<>>, err |-> LedgerPanic]
        ELSE IF ~value.ok THEN [ok |-> FALSE, panic |-> FALSE, val |-> <<>>, err |-> value.err]
        ELSE IF ~parsed.ok THEN [ok |-> FALSE, panic |-> FALSE, val |-> <<>>, err |-> "bincode"]
        ELSE [ok |-> TRUE, panic |-> FALSE, val |-> parsed.val, err |-> ""]

\* Account::get_account_index: Result<String, String>, or a panic
GetAccountIndex(d, address, f, live) ==
    LET value == StorageGet(d, "index", SerString(address), f)
        parsed == DeString(value.val)
    IN  IF ~LedgerOpens(live)
        THEN [ok |-> FALSE, panic |-> TRUE, val |-> <<>>, err |-> LedgerPanic]
        ELSE IF ~value.ok THEN [ok |-> FALSE, panic |-> FALSE, val |-> <<>>, err |-> value.err]
        ELSE IF ~parsed.ok THEN [ok |-> FALSE, panic |-> FALSE, val |-> <<>>, err |-> "bincode"]
        ELSE [ok |-> TRUE, panic |-> FALSE, val |-> parsed.val, err |-> ""]

\* the part get_account_details and get_balance share: fetch the row of
\* public_key, open its balance under public_key, parse it
DecryptedRow(d, public_key, f) ==
    LET row == StorageGet(d, "accounts", SerString(public_key), f)
        account == DeAccount(row.val)
        decrypted_data == CryptoDecrypt(account.val.balance.bytes, public_key)
        balance == ParseF64(decrypted_data.val)
    IN  IF ~row.ok THEN AccountErr(row.err)
        ELSE IF ~account.ok THEN AccountErr("bincode")
        ELSE IF account.val.balance.kind # "Binary" THEN AccountErr("Balance type is not binary")
        ELSE IF ~decrypted_data.ok THEN AccountErr(decrypted_data.err)
        ELSE IF ~balance.ok THEN AccountPanic("called Result::unwrap() on an Err value")
        ELSE AccountOk([address |-> account.val.address,
                        balance |-> BalanceDecimal(balance.val),
                        timestamp |-> account.val.timestamp])

\* Account::get_account_details
GetAccountDetails(d, private_key, f, live) ==
    LET public_key == WalletVerify(private_key)
    IN  IF public_key.panic THEN AccountPanic(public_key.err)
        ELSE IF ~public_key.ok THEN AccountErr(public_key.err)
        ELSE IF ~LedgerOpens(live) THEN AccountPanic(LedgerPanic)
        ELSE DecryptedRow(d, public_key.val, f)

\* Account::get_balance that hands back the address it was given
GetBalanceEchoesAddress(d, address, private_key, f, live) ==
    LET wallet_address == VerifyAddress(address)
        public_key == WalletVerify(private_key)
        row == DecryptedRow(d, public_key.val, f)
    IN  IF public_key.panic THEN AccountPanic(public_key.err)
        ELSE IF ~public_key.ok THEN AccountErr(public_key.err)
        ELSE IF ~wallet_address.ok THEN AccountErr("Not a valid wallet address")
        ELSE IF ~LedgerOpens(live) THEN AccountPanic(LedgerPanic)
        ELSE IF ~row.ok THEN row
        ELSE AccountOk([row.val EXCEPT !.address = address])

\* Account::get_balance: Result<Balance, String>; the Balance is the address
\* and the Decimal of the Account returned here
GetBalance(d, address, private_key, f, live) ==
    LET wallet_address == VerifyAddress(address)
        public_key == WalletVerify(private_key)
    IN  IF public_key.panic THEN AccountPanic(public_key.err)
        ELSE IF ~public_key.ok THEN AccountErr(public_key.err)
        ELSE IF ~wallet_address.ok THEN AccountErr("Not a valid wallet address")
        ELSE IF ~LedgerOpens(live) THEN AccountPanic(LedgerPanic)
        ELSE DecryptedRow(d, public_key.val, f)

\* Account::get_account: the second ledger() is called while the first
\* Storage of the call is alive
GetAccount(d, address, f, live) ==
    LET account_key == GetAccountIndex(d, address, f, live)
        wallet_address == VerifyAddress(address)
        row == StorageGet(d, "accounts", SerString(account_key.val), 0)
        account == DeAccount(row.val)
    IN  IF account_key.panic THEN AccountPanic(account_key.err)
        ELSE IF ~account_key.ok THEN AccountErr(account_key.err)
        ELSE IF ~wallet_address.ok THEN AccountErr("Not a valid wallet address")
        ELSE IF ~LedgerOpens(live + 1) THEN AccountPanic(LedgerPanic)
        ELSE IF ~row.ok THEN AccountErr(row.err)
        ELSE IF ~account.ok THEN AccountErr("bincode")
        ELSE AccountOk([address |-> account.val.address,
                        balance |-> BalanceText(Sentinel),
                        timestamp |-> account.val.timestamp])

\* the loop of get_accounts: deserialize each value and redact its balance
RECURSIVE RedactedAccounts(_)
RedactedAccounts(results) ==
    IF results = <<>> THEN [ok |-> TRUE, val |-> <<>>]
    ELSE LET data == DeAccount(results[1][2])
             rest == RedactedAccounts(Tail(results))
         IN  IF ~data.ok \/ ~rest.ok THEN [ok |-> FALSE, val |-> <<>>]
             ELSE [ok |-> TRUE,
                   val |-> <<[address |-> data.val.address,
                              balance |-> BalanceText(Sentinel),
                              timestamp |-> data.val.timestamp]>> \o rest.val]

\* Account::get_accounts that counts pages from 0
GetAccountsFromPageZero(d, page, limit, f, live) ==
    LET start == page * limit
        results == StorageBatchGet(d, "accounts", start, limit, f)
        results_vec == RedactedAccounts(results.val)
    IN  IF ~LedgerOpens(live) THEN [ok |-> FALSE, panic |-> TRUE, val |-> <<>>, err |-> LedgerPanic]
        ELSE IF ~results.ok THEN [ok |-> FALSE, panic |-> FALSE, val |-> <<>>, err |-> results.err]
        ELSE IF ~results_vec.ok THEN [ok |-> FALSE, panic |-> FALSE, val |-> <<>>, err |-> "bincode"]
        ELSE [ok |-> TRUE, panic |-> FALSE, val |-> results_vec.val, err |-> ""]

\* Account::get_accounts: Result<Vec<Account>, String>
GetAccounts(d, page, limit, f, live) ==
    LET start == IF page > 1 THEN (page - 1) * limit ELSE 0
        results == StorageBatchGet(d, "accounts", start, limit, f)
        results_vec == RedactedAccounts(results.val)
    IN  IF ~LedgerOpens(live) THEN [ok |-> FALSE, panic |-> TRUE, val |-> <<>>, err |-> LedgerPanic]
        ELSE IF ~results.ok THEN [ok |-> FALSE, panic |-> FALSE, val |-> <<>>, err |-> results.err]
        ELSE IF ~results_vec.ok THEN [ok |-> FALSE, panic |-> FALSE, val |-> <<>>, err |-> "bincode"]
        ELSE [ok |-> TRUE, panic |-> FALSE, val |-> results_vec.val, err |-> ""]

\* Account::total_accounts: Result<i64, String>
TotalAccounts(d, f, live) ==
    LET total == StorageGet(d, "analytics", CfBytes("accounts"), f)
        accounts == DeI64(total.val)
    IN  IF ~LedgerOpens(live) THEN [ok |-> FALSE, panic |-> TRUE, val |-> 0, err |-> LedgerPanic]
        ELSE IF ~total.ok THEN [ok |-> FALSE, panic |-> FALSE, val |-> 0, err |-> total.err]
        ELSE IF ~accounts.ok THEN [ok |-> FALSE, panic |-> FALSE, val |-> 0, err |-> "bincode"]
        ELSE [ok |-> TRUE, panic |-> FALSE, val |-> accounts.val, err |-> ""]

(***************************************************************************)
(* tx/transaction.rs: Transaction.                                         *)
(***************************************************************************)
\* TransactionStatus::Pending.as_str(): "Pending"
Pending == <<80, 101, 110, 100, 105, 110, 103>>

\* mem::size_of_val of a PlainTransaction on a 64-bit target
PLAIN_TX_SIZE == 176

\* the fee is size * BASE_FEE_PER_BYTE * congestion / MAX_SUPPLY over a random
\* congestion tier: one of the values of Fees
Fees == {0, 1}

\* Transaction::calculate_size_in_byte
CalculateSizeInByte(amount) == PLAIN_TX_SIZE * amount

\* Transaction::init: the PlainTransaction inside Transaction::Plain
TransactionInit(sender, receiver, amount, narration, timestamp, fee) ==
    LET id == HexEncode(HexEncode(Hash256(BE64(timestamp))))
    IN  [id |-> id, sender |-> sender, receiver |-> receiver, amount |-> amount,
         fee |-> fee, size |-> CalculateSizeInByte(amount), timestamp |-> timestamp,
         narration |-> narration, status |-> Pending,
         has_tx_key |-> FALSE, tx_key |-> <<>>]

NoPlain == [id |-> <<>>, sender |-> <<>>, receiver |-> <<>>, amount |-> 0, fee |-> 0,
            size |-> 0, timestamp |-> 0, narration |-> <<>>, status |-> <<>>,
            has_tx_key |-> FALSE, tx_key |-> <<>>]

\* bincode::serialize(&TransactionData)
SerTransactionData(tx_data) ==
    SerString(tx_data.sender) \o SerString(tx_data.receiver) \o SerF64(tx_data.amount)

NoTransactionData == [sender |-> <<>>, receiver |-> <<>>, amount |-> 0]

\* bincode::deserialize::<TransactionData>
DeTransactionData(b) ==
    LET sender == ReadBytes(b)
        receiver == ReadBytes(sender.rest)
    IN  IF ~sender.ok \/ ~IsUtf8(sender.val) THEN [ok |-> FALSE, val |-> NoTransactionData]
        ELSE IF ~receiver.ok \/ ~IsUtf8(receiver.val)
        THEN [ok |-> FALSE, val |-> NoTransactionData]
        ELSE IF Len(receiver.rest) < 8 THEN [ok |-> FALSE, val |-> NoTransactionData]
        ELSE [ok |-> TRUE,
              val |-> [sender |-> sender.val, receiver |-> receiver.val,
                       amount |-> DeF64(Take(receiver.rest, 8))]]

\* TransactionPrimitive::Encrypt(EncryptData::Vector(v)): variant 1 of each enum
SerEncryptVector(v) == LE32(1) \o LE32(1) \o SerBytes(v)

\* bincode::serialize(&EncryptedTransaction) with both views encrypted
SerEncryptedTransaction(tx) ==
    SerString(tx.id) \o SerEncryptVector(tx.sender_data) \o SerEncryptVector(tx.receiver_data)
        \o SerF64(tx.fee) \o SerF64(tx.size) \o LE64(tx.timestamp)
        \o SerString(tx.narration) \o SerString(tx.status)

NoEncrypted == [id |-> <<>>, sender_data |-> <<>>, receiver_data |-> <<>>, fee |-> 0,
                size |-> 0, timestamp |-> 0, narration |-> <<>>, status |-> <<>>]

\* an Encrypt(Vector(v)) at the head of b
ReadEncryptVector(b) ==
    IF Len(b) < 8 \/ Take(b, 8) # LE32(1) \o LE32(1)
    THEN [ok |-> FALSE, val |-> <<>>, rest |-> <<>>]
    ELSE ReadBytes(Drop(b, 8))

\* bincode::deserialize::<EncryptedTransaction>, for records whose views are
\* Encrypt(Vector(_)), the only form process_transaction writes
DeEncryptedTransaction(b) ==
    LET id == ReadBytes(b)
        sender_data == ReadEncryptVector(id.rest)
        receiver_data == ReadEncryptVector(sender_data.rest)
        fixed == receiver_data.rest
        narration == ReadBytes(Drop(fixed, 24))
        status == ReadBytes(narration.rest)
    IN  IF ~id.ok \/ ~sender_data.ok \/ ~receiver_data.ok \/ Len(fixed) < 24
        THEN [ok |-> FALSE, val |-> NoEncrypted]
        ELSE IF ~narration.ok \/ ~status.ok THEN [ok |-> FALSE, val |-> NoEncrypted]
        ELSE [ok |-> TRUE,
              val |-> [id |-> id.val, sender_data |-> sender_data.val,
                       receiver_data |-> receiver_data.val,
                       fee |-> DeF64(SubSeq(fixed, 1, 8)),
                       size |-> DeF64(SubSeq(fixed, 9, 16)),
                       timestamp |-> FromLE64(SubSeq(fixed, 17, 24)),
                       narration |-> narration.val, status |-> status.val]]

\* the part of process_transaction between the index lookup and the put:
\* both views sealed, the record serialized.  receiver_key is what the lookup
\* returned, generated_key the key Crypto::encrypt draws for the sender view
SealedTransaction(data, receiver_key, generated_key, nonce1, nonce2) ==
    LET tx_data == [sender |-> data.sender, receiver |-> data.receiver, amount |-> data.amount]
        receiver_data ==
            CryptoEncrypt(SerTransactionData(tx_data), TRUE, receiver_key, <<>>, nonce1)
        sender_data ==
            CryptoEncrypt(SerTransactionData(tx_data), FALSE, <<>>, generated_key, nonce2)
        tx_serialize == [id |-> data.id, sender_data |-> sender_data.data,
                         receiver_data |-> receiver_data.data, fee |-> data.fee,
                         size |-> data.size, timestamp |-> data.timestamp,
                         narration |-> data.narration, status |-> data.status]
    IN  IF ~receiver_data.ok \/ ~sender_data.ok
        THEN [ok |-> FALSE, value |-> <<>>, tx_key |-> <<>>]
        ELSE [ok |-> TRUE, value |-> SerEncryptedTransaction(tx_serialize),
              tx_key |-> sender_data.key]

ProcessResult(d, ok, panic, err, plain) ==
    [db |-> d, ok |-> ok, panic |-> panic, err |-> err, val |-> plain]

\* Transaction::process_transaction: store = ledger() is alive while
\* Account::get_account_index opens its own
ProcessTransaction(d, data, generated_key, nonce1, nonce2, f, live) ==
    LET key == SerString(data.id)
        receiver_key == GetAccountIndex(d, data.sender, 0, live + 1)
        sealed == SealedTransaction(data, receiver_key.val, generated_key, nonce1, nonce2)
        put == StoragePut(d, "transactions", key, sealed.value, TRUE, f)
    IN  IF ~LedgerOpens(live) THEN ProcessResult(d, FALSE, TRUE, LedgerPanic, NoPlain)
        ELSE IF receiver_key.panic THEN ProcessResult(d, FALSE, TRUE, receiver_key.err, NoPlain)
        ELSE IF ~receiver_key.ok THEN ProcessResult(d, FALSE, FALSE, receiver_key.err, NoPlain)
        ELSE IF ~sealed.ok THEN ProcessResult(d, FALSE, FALSE, "Encryption failed", NoPlain)
        ELSE IF ~put.ok THEN ProcessResult(put.db, FALSE, FALSE, put.err, NoPlain)
        ELSE ProcessResult(put.db, TRUE, FALSE, "",
                           [data EXCEPT !.has_tx_key = TRUE, !.tx_key = sealed.tx_key])

\* what get_transaction hands back: the decoded views of the record
NoViews == [sender_data |-> NoTransactionData, receiver_data |-> NoTransactionData]

ViewsResult(ok, panic, err, views) ==
    [ok |-> ok, panic |-> panic, err |-> err, val |-> views]

\* Transaction::get_transaction (get_transaction_details is the same code):
\* both views are opened with the one key given, "" when tx_key is None
\* Transaction::get_transaction that returns the sender view when only the
\* receiver view fails to open
GetTransactionSenderOnly(d, tx_id, has_tx_key, tx_key, f, live) ==
    LET value == StorageGet(d, "transactions", SerString(tx_id), f)
        encrypted_tx == DeEncryptedTransaction(value.val)
        the_key == IF has_tx_key THEN tx_key ELSE <<>>
        decrypted_sender == CryptoDecrypt(encrypted_tx.val.sender_data, the_key)
        sender_data == DeTransactionData(decrypted_sender.val)
    IN  IF ~LedgerOpens(live) THEN ViewsResult(FALSE, TRUE, LedgerPanic, NoViews)
        ELSE IF ~value.ok THEN ViewsResult(FALSE, FALSE, value.err, NoViews)
        ELSE IF ~encrypted_tx.ok THEN ViewsResult(FALSE, FALSE, "bincode", NoViews)
        ELSE IF ~decrypted_sender.ok
        THEN ViewsResult(FALSE, FALSE, "Sender decryption failed", NoViews)
        ELSE IF ~sender_data.ok THEN ViewsResult(FALSE, FALSE, "bincode", NoViews)
        ELSE ViewsResult(TRUE, FALSE, "",
                         [sender_data |-> sender_data.val,
                          receiver_data |-> NoTransactionData])

GetTransaction(d, tx_id, has_tx_key, tx_key, f, live) ==
    LET value == StorageGet(d, "transactions", SerString(tx_id), f)
        encrypted_tx == DeEncryptedTransaction(value.val)
        the_key == IF has_tx_key THEN tx_key ELSE <<>>
        decrypted_sender == CryptoDecrypt(encrypted_tx.val.sender_data, the_key)
        sender_data == DeTransactionData(decrypted_sender.val)
        decrypted_receiver == CryptoDecrypt(encrypted_tx.val.receiver_data, the_key)
        receiver_data == DeTransactionData(decrypted_receiver.val)
    IN  IF ~LedgerOpens(live) THEN ViewsResult(FALSE, TRUE, LedgerPanic, NoViews)
        ELSE IF ~value.ok THEN ViewsResult(FALSE, FALSE, value.err, NoViews)
        ELSE IF ~encrypted_tx.ok THEN ViewsResult(FALSE, FALSE, "bincode", NoViews)
        ELSE IF ~decrypted_sender.ok
        THEN ViewsResult(FALSE, FALSE, "Sender decryption failed", NoViews)
        ELSE IF ~sender_data.ok THEN ViewsResult(FALSE, FALSE, "bincode", NoViews)
        ELSE IF ~decrypted_receiver.ok
        THEN ViewsResult(FALSE, FALSE, "Receiver decryption failed", NoViews)
        ELSE IF ~receiver_data.ok THEN ViewsResult(FALSE, FALSE, "bincode", NoViews)
        ELSE ViewsResult(TRUE, FALSE, "",
                         [sender_data |-> sender_data.val, receiver_data |-> receiver_data.val])

\* Transaction::get_transaction_details: statement for statement the body of
\* get_transaction
GetTransactionDetails(d, tx_id, has_tx_key, tx_key, f, live) ==
    GetTransaction(d, tx_id, has_tx_key, tx_key, f, live)

(***************************************************************************)
(* The ledger as its callers drive it.  Every call is made by a process    *)
(* that holds no Storage, and the process ends with the call (cli/cli.rs): *)
(* ret is what the call returned, until the process exits.                 *)
(***************************************************************************)
NoRet ==
    [op |-> "none", ok |-> TRUE, panic |-> FALSE, err |-> "",
     cf |-> "", check |-> FALSE, fault |-> 0,
     arg1 |-> <<>>, arg2 |-> <<>>, has_arg2 |-> FALSE,
     bytes |-> <<>>, num |-> 0, flag |-> FALSE,
     sealed |-> <<>>, blob |-> <<>>, key |-> <<>>,
     start |-> 0, limit |-> 0, page |-> 0, list |-> <<>>,
     account |-> NoAccount, fresh |-> NoCreated,
     data |-> NoPlain, plain |-> NoPlain, views |-> NoViews]

\* the rows after a read that bumps the counter of accounts
ReadCounted(d) == UpdateAnalytics(d, CfBytes("accounts"), 0).db

\* the rows after a call whose engine calls are get_cf and iterator_cf only:
\* no read makes a put_cf, not even of a counter
ReadOnly(d) == d

Threads == 1..MaxThreads

\* a thread that has made no call yet
NoThread ==
    [pc |-> "idle", op |-> "none", key |-> <<>>, value |-> <<>>, check |-> FALSE,
     seen |-> ErrB(""), ok |-> TRUE, err |-> "", bytes |-> <<>>]

Init ==
    /\ db = EmptyDb
    /\ ret = NoRet
    /\ created = {}
    /\ okPuts = [cf \in Families |-> 0]
    /\ faulted = FALSE
    /\ tampered = FALSE
    /\ writes = 0
    /\ written = EmptyDb
    /\ threads = [t \in Threads |-> NoThread]

\* the values the clock may read
Timestamps == 0..MaxTime

PrivateKeyOf(s) == HexEncode(ScalarToBytes(s))

PublicKeyOf(s) == HexEncode(Compress(BasepointMul(s)))

\* the private keys callers pass: those of the group's scalars, "zz", which
\* is not hex, "00", the hex of a single byte, and the hex of 33 bytes: the
\* key of scalar 1 followed by one more byte
PrivateKeyInputs ==
    {PrivateKeyOf(s) : s \in Scalars}
        \cup {<<122, 122>>, <<48, 48>>, PrivateKeyOf(1) \o <<48, 48>>}

\* the engine call of Account::new that fails: 1..4 in the accounts put,
\* 5..8 in the index put
NewFaults == 0..8

\* the process ends
Exit ==
    /\ ret.op # "none"
    /\ ret' = NoRet
    /\ UNCHANGED <<db, created, okPuts, faulted, tampered, writes, written, threads>>

CreateAccount ==
    /\ ret.op = "none"
    /\ writes < MaxWrites
    /\ \E wallet \in Wallets, nonce_bytes \in Nonces, timestamp \in Timestamps,
          f \in NewFaults :
          \E r \in {AccountNew(db, wallet, nonce_bytes, timestamp,
                               IF f <= 4 THEN f ELSE 0, IF f > 4 THEN f - 4 ELSE 0, 0)} :
              /\ db' = r.db
              /\ ret' = [NoRet EXCEPT !.op = "Account::new", !.ok = r.ok, !.panic = r.panic,
                                      !.err = r.err, !.fault = f, !.fresh = r.val]
              /\ created' = IF r.ok THEN created \cup {r.val} ELSE created
              /\ okPuts' = [okPuts EXCEPT
                               !["accounts"] = @ + (IF r.puts >= 1 THEN 1 ELSE 0),
                               !["index"] = @ + (IF r.puts >= 2 THEN 1 ELSE 0)]
              /\ faulted' = (faulted \/ f # 0)
    /\ writes' = writes + 1
    /\ UNCHANGED <<tampered, written, threads>>

CallGetAccountIndex ==
    /\ ret.op = "none"
    /\ \E address \in AddressInputs :
          \E r \in {GetAccountIndex(db, address, 0, 0)} :
              ret' = [NoRet EXCEPT !.op = "Account::get_account_index", !.arg1 = address,
                                   !.ok = r.ok, !.panic = r.panic, !.err = r.err,
                                   !.bytes = r.val]
    /\ db' = ReadOnly(db)
    /\ UNCHANGED <<created, okPuts, faulted, tampered, writes, written, threads>>

CallGetAccount ==
    /\ ret.op = "none"
    /\ \E address \in AddressInputs :
          \E r \in {GetAccount(db, address, 0, 0)} :
              ret' = [NoRet EXCEPT !.op = "Account::get_account", !.arg1 = address,
                                   !.ok = r.ok, !.panic = r.panic, !.err = r.err,
                                   !.account = r.val]
    /\ db' = ReadOnly(db)
    /\ UNCHANGED <<created, okPuts, faulted, tampered, writes, written, threads>>

\* exit status of the process: cli() returns unit after printing, on Ok and
\* on Err alike, and a panic unwinds out of main (status 101)
ExitStatus(panic) == IF panic THEN 101 ELSE 0

\* cli(): the get-account subcommand, which hands its PRIVATE_KEY argument to
\* Account::get_account
CliGetAccount ==
    /\ ret.op = "none"
    /\ \E private_key \in PrivateKeyInputs :
          \E r \in {GetAccount(db, private_key, 0, 0)} :
              ret' = [NoRet EXCEPT !.op = "cli get-account", !.arg1 = private_key,
                                   !.ok = r.ok, !.panic = r.panic, !.err = r.err,
                                   !.account = r.val, !.num = ExitStatus(r.panic)]
    /\ db' = ReadOnly(db)
    /\ UNCHANGED <<created, okPuts, faulted, tampered, writes, written, threads>>

CallGetAccountDetails ==
    /\ ret.op = "none"
    /\ \E private_key \in PrivateKeyInputs :
          \E r \in {GetAccountDetails(db, private_key, 0, 0)} :
              ret' = [NoRet EXCEPT !.op = "Account::get_account_details",
                                   !.arg1 = private_key,
                                   !.ok = r.ok, !.panic = r.panic, !.err = r.err,
                                   !.account = r.val]
    /\ db' = ReadOnly(db)
    /\ UNCHANGED <<created, okPuts, faulted, tampered, writes, written, threads>>

CallGetBalance ==
    /\ ret.op = "none"
    /\ \E address \in AddressInputs, private_key \in PrivateKeyInputs :
          \E r \in {GetBalance(db, address, private_key, 0, 0)} :
              ret' = [NoRet EXCEPT !.op = "Account::get_balance",
                                   !.arg1 = address, !.arg2 = private_key,
                                   !.ok = r.ok, !.panic = r.panic, !.err = r.err,
                                   !.account = r.val]
    /\ db' = ReadOnly(db)
    /\ UNCHANGED <<created, okPuts, faulted, tampered, writes, written, threads>>

Pages == 0..MaxPage

Limits == 0..MaxLimit

CallGetAccounts ==
    /\ ret.op = "none"
    /\ \E page \in Pages, limit \in Limits, f \in {0, 1} :
          \E r \in {GetAccounts(db, page, limit, f, 0)} :
              ret' = [NoRet EXCEPT !.op = "Account::get_accounts", !.page = page,
                                   !.limit = limit, !.fault = f,
                                   !.ok = r.ok, !.panic = r.panic, !.err = r.err,
                                   !.list = r.val]
    /\ db' = ReadOnly(db)
    /\ UNCHANGED <<created, okPuts, faulted, tampered, writes, written, threads>>

CallTotalAccounts ==
    /\ ret.op = "none"
    /\ \E r \in {TotalAccounts(db, 0, 0)} :
          ret' = [NoRet EXCEPT !.op = "Account::total_accounts",
                               !.ok = r.ok, !.panic = r.panic, !.err = r.err,
                               !.num = r.val]
    /\ db' = ReadOnly(db)
    /\ UNCHANGED <<created, okPuts, faulted, tampered, writes, written, threads>>

\* "t1"
Narration == <<116, 49>>

TxAmounts == {1}

\* the PlainTransaction values Transaction::init may have produced
InitializedTransactions ==
    {TransactionInit(sender, receiver, amount, Narration, timestamp, fee) :
        sender \in Addresses, receiver \in Addresses, amount \in TxAmounts,
        timestamp \in Timestamps, fee \in Fees}

CallProcessTransaction ==
    /\ ret.op = "none"
    /\ \E data \in InitializedTransactions, generated_key \in GeneratedKeys,
          nonce1 \in Nonces, nonce2 \in Nonces, f \in Faults :
          \E r \in {ProcessTransaction(db, data, generated_key, nonce1, nonce2, f, 0)} :
              /\ db' = r.db
              /\ ret' = [NoRet EXCEPT !.op = "Transaction::process_transaction",
                                      !.data = data, !.fault = f,
                                      !.ok = r.ok, !.panic = r.panic, !.err = r.err,
                                      !.plain = r.val]
              /\ okPuts' = [okPuts EXCEPT
                               !["transactions"] = @ + (IF r.ok THEN 1 ELSE 0)]
              /\ faulted' = (faulted \/ (f # 0 /\ ~r.panic))
    /\ UNCHANGED <<created, tampered, writes, written, threads>>

TransactionIds == {data.id : data \in InitializedTransactions}

TxKeyInputs == {HexEncode(k) : k \in GeneratedKeys} \cup {PublicKeyOf(s) : s \in Scalars}

CallGetTransaction ==
    /\ ret.op = "none"
    /\ \E tx_id \in TransactionIds, has_tx_key \in BOOLEAN, tx_key \in TxKeyInputs :
          \E r \in {GetTransaction(db, tx_id, has_tx_key, tx_key, 0, 0)} :
              ret' = [NoRet EXCEPT !.op = "Transaction::get_transaction",
                                   !.arg1 = tx_id, !.has_arg2 = has_tx_key,
                                   !.arg2 = IF has_tx_key THEN tx_key ELSE <<>>,
                                   !.ok = r.ok, !.panic = r.panic, !.err = r.err,
                                   !.views = r.val]
    /\ db' = ReadOnly(db)
    /\ UNCHANGED <<created, okPuts, faulted, tampered, writes, written, threads>>

Next ==
    \/ CreateAccount
    \/ CallGetAccountIndex
    \/ CallGetAccount
    \/ CliGetAccount
    \/ CallGetAccountDetails
    \/ CallGetBalance
    \/ CallGetAccounts
    \/ CallTotalAccounts
    \/ CallProcessTransaction
    \/ CallGetTransaction
    \/ Exit

Spec == Init /\ [][Next]_vars

(***************************************************************************)
(* The store as a client of Storage drives it: single puts, batch puts and *)
(* reads on families and keys of its choosing, and Account::total_accounts *)
(* and Transaction::get_transaction over the same store.                   *)
(***************************************************************************)
StoreFamilies == {"accounts", "analytics"}

StoreKeys == {<<1>>, <<2>>, <<1, 2>>, CfBytes("accounts")}

StoreValues == {<<7>>, SerI64(5)}

StoreBatches == {<< <<(<<1>>), (<<7>>)>> >>,
                 << <<CfBytes("accounts"), SerI64(5)>>, <<(<<2>>), (<<7>>)>> >>}

\* (cf, key) is an entry update_analytics keeps: the counter of a family
IsCounter(cf, key) == cf = "analytics" /\ key \in {CfBytes(family) : family \in Families}

\* the pairs of a batch that are not counters
NoCounters(cf, batch) == SelectSeq(batch, LAMBDA pair : ~IsCounter(cf, pair[1]))

CallPut ==
    /\ ret.op = "none"
    /\ writes < MaxWrites
    /\ \E cf \in StoreFamilies, key \in StoreKeys, value \in StoreValues,
          check_exist \in BOOLEAN, f \in Faults :
          \E r \in {StoragePut(db, cf, key, value, check_exist, f)} :
              /\ db' = r.db
              /\ ret' = [NoRet EXCEPT !.op = "Storage::put", !.cf = cf, !.check = check_exist,
                                      !.fault = f, !.arg1 = key, !.arg2 = value,
                                      !.ok = r.ok, !.err = r.err]
              /\ okPuts' = [okPuts EXCEPT ![cf] = @ + (IF r.ok THEN 1 ELSE 0)]
              /\ faulted' = (faulted \/ f # 0)
              /\ tampered' = (tampered \/ cf = "analytics")
              /\ written' = IF ~IsCounter(cf, key) /\ f # 2
                                 /\ ~(check_exist /\ (f = 1 \/ HasKey(written, cf, key)))
                             THEN PutCf(written, cf, key, value)
                             ELSE written
    /\ writes' = writes + 1
    /\ UNCHANGED <<created, threads>>

CallBatchPut ==
    /\ ret.op = "none"
    /\ writes < MaxWrites
    /\ \E cf \in StoreFamilies, batch \in StoreBatches, f \in {0, 2} :
          \E r \in {StorageBatchPut(db, cf, batch, f)} :
              /\ db' = r.db
              /\ ret' = [NoRet EXCEPT !.op = "Storage::batch_put", !.cf = cf, !.fault = f,
                                      !.num = Len(batch), !.list = batch,
                                      !.ok = r.ok, !.err = r.err]
              /\ faulted' = (faulted \/ f # 0)
              /\ tampered' = (tampered \/ cf = "analytics")
              /\ written' = IF f # 2 THEN WriteBatch(written, cf, NoCounters(cf, batch))
                             ELSE written
    /\ writes' = writes + 1
    /\ UNCHANGED <<created, okPuts, threads>>

CallGet ==
    /\ ret.op = "none"
    /\ \E cf \in StoreFamilies, key \in StoreKeys :
          \E r \in {StorageGet(db, cf, key, 0)} :
              ret' = [NoRet EXCEPT !.op = "Storage::get", !.cf = cf, !.arg1 = key,
                                   !.ok = r.ok, !.err = r.err, !.bytes = r.val]
    /\ db' = ReadOnly(db)
    /\ UNCHANGED <<created, okPuts, faulted, tampered, writes, written, threads>>

CallExists ==
    /\ ret.op = "none"
    /\ \E cf \in StoreFamilies, key \in StoreKeys :
          \E r \in {StorageExists(db, cf, key, 0)} :
              ret' = [NoRet EXCEPT !.op = "Storage::exists", !.cf = cf, !.arg1 = key,
                                   !.ok = r.ok, !.err = r.err, !.flag = r.val]
    /\ db' = ReadOnly(db)
    /\ UNCHANGED <<created, okPuts, faulted, tampered, writes, written, threads>>

Skips == 0..MaxSkip

CallBatchGet ==
    /\ ret.op = "none"
    /\ \E cf \in StoreFamilies, start \in Skips, limit \in Limits, f \in {0, 1} :
          \E r \in {StorageBatchGet(db, cf, start, limit, f)} :
              ret' = [NoRet EXCEPT !.op = "Storage::batch_get", !.cf = cf,
                                   !.start = start, !.limit = limit, !.fault = f,
                                   !.ok = r.ok, !.err = r.err, !.list = r.val]
    /\ db' = ReadOnly(db)
    /\ UNCHANGED <<created, okPuts, faulted, tampered, writes, written, threads>>

CallGetAnalytics ==
    /\ ret.op = "none"
    /\ \E cf \in StoreFamilies :
          \E r \in {StorageGetAnalytics(db, CfBytes(cf), 0)} :
              ret' = [NoRet EXCEPT !.op = "Storage::get_analytics", !.cf = cf,
                                   !.ok = r.ok, !.err = r.err, !.num = r.val]
    /\ db' = ReadOnly(db)
    /\ UNCHANGED <<created, okPuts, faulted, tampered, writes, written, threads>>

StoreNext ==
    \/ CallPut
    \/ CallBatchPut
    \/ CallGet
    \/ CallExists
    \/ CallBatchGet
    \/ CallGetAnalytics
    \/ CallGetTransaction
    \/ CallTotalAccounts
    \/ Exit

StoreSpec == Init /\ [][StoreNext]_vars

(***************************************************************************)
(* The cipher as a caller drives it: one Crypto::encrypt of a payload,     *)
(* then one Crypto::decrypt of the blob it returned, as returned or with   *)
(* one bit flipped or its last byte cut off, under a key of the caller.    *)
(***************************************************************************)
Payloads == {<<>>, <<0>>, <<255, 1>>, <<1, 2, 3>>}

\* 32-byte keys hex encoded as Crypto takes them, a 31-byte key and a string
\* that is not hex
CipherKeyInputs ==
    {HexEncode(k) : k \in {Zeros(KEY_LEN), <<1>> \o Zeros(KEY_LEN - 1)} \cup GeneratedKeys}
        \cup {HexEncode(Zeros(KEY_LEN - 1)), <<122, 122>>}

\* what a caller may hand to decrypt in place of a blob encrypt returned: the
\* blob, the blob cut short, the blob with the lowest or the highest bit of
\* one byte inverted
Presented(blob) ==
    {blob, Take(blob, Len(blob) - 1), Take(blob, NONCE_LEN - 1)}
        \cup {[blob EXCEPT ![at] = IF (@ \div (2 ^ bit)) % 2 = 1 THEN @ - 2 ^ bit
                                   ELSE @ + 2 ^ bit] :
                  at \in 1..Len(blob), bit \in {0, 7}}

CallEncrypt ==
    /\ ret.op = "none"
    /\ \E data \in Payloads, has_key \in BOOLEAN, encryption_key \in CipherKeyInputs,
          generated_key \in GeneratedKeys, nonce_bytes \in Nonces :
          \E r \in {CryptoEncrypt(data, has_key, encryption_key, generated_key, nonce_bytes)} :
              ret' = [NoRet EXCEPT !.op = "Crypto::encrypt", !.arg1 = data,
                                   !.has_arg2 = has_key,
                                   !.arg2 = IF has_key THEN encryption_key ELSE <<>>,
                                   !.ok = r.ok, !.err = r.err,
                                   !.sealed = r.data, !.key = r.key]
    /\ UNCHANGED <<db, created, okPuts, faulted, tampered, writes, written, threads>>

CallDecrypt ==
    /\ ret.op = "Crypto::encrypt" /\ ret.ok
    /\ \E encrypted_data \in Presented(ret.sealed), key \in CipherKeyInputs \cup {ret.key} :
          \E r \in {CryptoDecrypt(encrypted_data, key)} :
              ret' = [ret EXCEPT !.op = "Crypto::decrypt",
                                 !.arg2 = ret.key,
                                 !.blob = encrypted_data, !.key = key,
                                 !.ok = r.ok, !.err = r.err, !.bytes = r.val]
    /\ UNCHANGED <<db, created, okPuts, faulted, tampered, writes, written, threads>>

CipherNext ==
    \/ CallEncrypt
    \/ CallDecrypt
    \/ Exit

CipherSpec == Init /\ [][CipherNext]_vars

(***************************************************************************)
(* One Storage shared by threads (db is an Arc<RwLock<DB>>).  Every        *)
(* operation enters the engine through with_cf_handle, which takes         *)
(* self.db.read(): a shared guard, granted whenever no thread holds the    *)
(* exclusive one, and no operation ever asks for the exclusive one.  A     *)
(* thread is inside its critical section from the step that takes the      *)
(* guard to the step that makes its last engine call under it.  The        *)
(* threads put into and get from the accounts family; engine calls do not  *)
(* fail here.                                                              *)
(***************************************************************************)
ThreadFamily == "accounts"

ThreadKeys == {<<1>>, <<2>>}

\* the threads holding a guard of the lock, and whether one holds it exclusively
ReadGuards == {t \in Threads : threads[t].pc \in {"put:locked", "put:checked", "get:locked"}}

\* a lock whose every guard is exclusive, as a Mutex grants them
AnyGuardExcludes == ReadGuards # {}

WriteGuardHeld == FALSE

\* with_cf_handle of put: the shared guard is taken
PutLock(t) ==
    /\ threads[t].pc = "idle"
    /\ ~WriteGuardHeld
    /\ writes < MaxWrites
    /\ \E key \in ThreadKeys, value \in StoreValues, check_exist \in BOOLEAN :
          threads' = [threads EXCEPT ![t] =
                         [NoThread EXCEPT !.pc = IF check_exist THEN "put:locked"
                                                ELSE "put:checked",
                                          !.op = "Storage::put", !.key = key,
                                          !.value = value, !.check = check_exist]]
    /\ writes' = writes + 1
    /\ UNCHANGED <<db, ret, created, okPuts, faulted, tampered, written>>

\* put: self.exists under the guard, which takes the shared guard a second
\* time for its own engine call, and the early return on a present key
PutExists(t) ==
    /\ threads[t].pc = "put:locked"
    /\ ~WriteGuardHeld
    /\ \E data_exists \in {StorageExists(db, ThreadFamily, threads[t].key, 0)} :
          threads' = [threads EXCEPT ![t] =
                         IF data_exists.val
                         THEN [@ EXCEPT !.pc = "idle", !.ok = FALSE, !.err = RecordExists]
                         ELSE [@ EXCEPT !.pc = "put:checked"]]
    /\ UNCHANGED <<db, ret, created, okPuts, faulted, tampered, writes, written>>

\* put: db.put_cf of the record, after which the guard is dropped
PutRecord(t) ==
    /\ threads[t].pc = "put:checked"
    /\ db' = PutCf(db, ThreadFamily, threads[t].key, threads[t].value)
    /\ written' = PutCf(written, ThreadFamily, threads[t].key, threads[t].value)
    /\ threads' = [threads EXCEPT ![t].pc = "analytics"]
    /\ UNCHANGED <<ret, created, okPuts, faulted, tampered, writes>>

\* update_analytics: the counter is read under a guard of its own
AnalyticsRead(t) ==
    /\ threads[t].pc = "analytics"
    /\ ~WriteGuardHeld
    /\ threads' = [threads EXCEPT ![t].pc = "analytics:read",
                                  ![t].seen = StorageGet(db, "analytics",
                                                         CfBytes(ThreadFamily), 0)]
    /\ UNCHANGED <<db, ret, created, okPuts, faulted, tampered, writes, written>>

\* update_analytics: the value read plus one, or 1, is written under another
\* guard, and put returns
AnalyticsWrite(t) ==
    /\ threads[t].pc = "analytics:read"
    /\ ~WriteGuardHeld
    /\ \E analytics \in {threads[t].seen} :
          \E parsed \in {DeI64(analytics.val)} :
              IF analytics.ok /\ ~parsed.ok
              THEN /\ threads' = [threads EXCEPT ![t].pc = "idle", ![t].ok = FALSE,
                                                ![t].err = "bincode"]
                   /\ UNCHANGED <<db, okPuts>>
              ELSE /\ db' = PutCf(db, "analytics", CfBytes(ThreadFamily),
                                  IF analytics.ok THEN SerI64(parsed.val + 1)
                                  ELSE SerI64(1))
                   /\ threads' = [threads EXCEPT ![t].pc = "idle", ![t].ok = TRUE]
                   /\ okPuts' = [okPuts EXCEPT ![ThreadFamily] = @ + 1]
    /\ UNCHANGED <<ret, created, faulted, tampered, writes, written>>

\* with_cf_handle of get: the shared guard is taken
GetLock(t) ==
    /\ threads[t].pc = "idle"
    /\ ~WriteGuardHeld
    /\ \E key \in ThreadKeys :
          threads' = [threads EXCEPT ![t] =
                         [NoThread EXCEPT !.pc = "get:locked", !.op = "Storage::get",
                                          !.key = key]]
    /\ UNCHANGED <<db, ret, created, okPuts, faulted, tampered, writes, written>>

\* get: db.get_cf under the guard, and get returns
GetRead(t) ==
    /\ threads[t].pc = "get:locked"
    /\ \E r \in {StorageGet(db, ThreadFamily, threads[t].key, 0)} :
          threads' = [threads EXCEPT ![t].pc = "idle", ![t].ok = r.ok,
                                     ![t].err = r.err, ![t].bytes = r.val]
    /\ UNCHANGED <<db, ret, created, okPuts, faulted, tampered, writes, written>>

ThreadNext ==
    \E t \in Threads :
        \/ PutLock(t)
        \/ PutExists(t)
        \/ PutRecord(t)
        \/ AnalyticsRead(t)
        \/ AnalyticsWrite(t)
        \/ GetLock(t)
        \/ GetRead(t)

ThreadSpec == Init /\ [][ThreadNext]_vars

\* the steps of a call under way: the scheduler runs every thread, and the
\* engine calls return
ThreadStep(t) ==
    \/ PutExists(t)
    \/ PutRecord(t)
    \/ AnalyticsRead(t)
    \/ AnalyticsWrite(t)
    \/ GetRead(t)

ThreadFairSpec ==
    Init /\ [][ThreadNext]_vars /\ \A t \in Threads : WF_vars(ThreadStep(t))

(***************************************************************************)
(* Reading transactions from a store that holds sealed records.  The       *)
(* records are built as process_transaction builds them (two views of one  *)
(* TransactionData, the receiver view sealed under a key given, the sender *)
(* view under a fresh key) and put into the transactions family by a       *)
(* client of Storage.                                                      *)
(***************************************************************************)
PutSealed ==
    /\ ret.op = "none"
    /\ writes < MaxWrites
    /\ \E data \in InitializedTransactions, receiver_key \in TxKeyInputs,
          generated_key \in GeneratedKeys, nonce1 \in Nonces, nonce2 \in Nonces :
          \E sealed \in {SealedTransaction(data, receiver_key, generated_key, nonce1, nonce2)} :
              /\ sealed.ok
              /\ \E r \in {StoragePut(db, "transactions", SerString(data.id),
                                      sealed.value, TRUE, 0)} :
                    /\ db' = r.db
                    /\ ret' = [NoRet EXCEPT !.op = "Storage::put", !.cf = "transactions",
                                            !.check = TRUE, !.arg1 = SerString(data.id),
                                            !.arg2 = sealed.value, !.data = data,
                                            !.ok = r.ok, !.err = r.err]
                    /\ okPuts' = [okPuts EXCEPT !["transactions"] = @ + (IF r.ok THEN 1 ELSE 0)]
                    /\ written' = IF HasKey(written, "transactions", SerString(data.id))
                                  THEN written
                                  ELSE PutCf(written, "transactions", SerString(data.id),
                                             sealed.value)
    /\ writes' = writes + 1
    /\ UNCHANGED <<created, faulted, tampered, threads>>

CallGetTransactionDetails ==
    /\ ret.op = "none"
    /\ \E tx_id \in TransactionIds, has_tx_key \in BOOLEAN, tx_key \in TxKeyInputs :
          \E r \in {GetTransactionDetails(db, tx_id, has_tx_key, tx_key, 0, 0)} :
              ret' = [NoRet EXCEPT !.op = "Transaction::get_transaction_details",
                                   !.arg1 = tx_id, !.has_arg2 = has_tx_key,
                                   !.arg2 = IF has_tx_key THEN tx_key ELSE <<>>,
                                   !.ok = r.ok, !.panic = r.panic, !.err = r.err,
                                   !.views = r.val]
    /\ db' = ReadOnly(db)
    /\ UNCHANGED <<created, okPuts, faulted, tampered, writes, written, threads>>

ViewNext ==
    \/ PutSealed
    \/ CallGetTransaction
    \/ CallGetTransactionDetails
    \/ Exit

ViewSpec == Init /\ [][ViewNext]_vars

(***************************************************************************)
(* Every read of the ledger and of the store, against the rows that new    *)
(* accounts and sealed transactions have left in the families.             *)
(***************************************************************************)
ReadNext ==
    \/ CreateAccount
    \/ PutSealed
    \/ CallGet
    \/ CallExists
    \/ CallBatchGet
    \/ CallGetAnalytics
    \/ CallGetAccountIndex
    \/ CallGetAccount
    \/ CallGetAccountDetails
    \/ CallGetBalance
    \/ CallGetAccounts
    \/ CallTotalAccounts
    \/ CallGetTransaction
    \/ CallGetTransactionDetails
    \/ Exit

ReadSpec == Init /\ [][ReadNext]_vars

(***************************************************************************)
(* Properties of the store (checked under StoreSpec).                      *)
(***************************************************************************)

\* C1: a put with check_exist = true on a key its family already holds
\* returns the "Record exists!" error and changes nothing: the value under the
\* key, every family and the analytics counters stay as they were.
PutIfAbsentRejects ==
    [][(ret'.op = "Storage::put" /\ ret'.check /\ ret'.fault = 0
            /\ HasKey(db, ret'.cf, ret'.arg1))
        => (~ret'.ok /\ ret'.err = RecordExists /\ db' = db)]_vars

\* a second put offered another value for a stored key and was turned away
PutRejected ==
    /\ ret.op = "Storage::put" /\ ret.check /\ ret.fault = 0
    /\ ret.err = RecordExists
    /\ HasKey(db, ret.cf, ret.arg1)
    /\ db[ret.cf][ret.arg1] # ret.arg2

RecordFamilies == {"accounts", "index", "transactions"}

\* C2: a key present in accounts, index or transactions stays present with
\* the same value after every ledger operation.
AppendOnly ==
    [][\A cf \in RecordFamilies : \A k \in DOMAIN db[cf] :
           HasKey(db', cf, k) /\ db'[cf][k] = db[cf][k]]_vars

\* Account::new drew a public key that has a row already and was turned away
SecondAccountRejected ==
    /\ ret.op = "Account::new" /\ ret.fault = 0
    /\ ret.err = RecordExists
    /\ DOMAIN db["accounts"] # {}

\* C3: every row of the accounts family under key K has an index entry whose
\* value is K.
AccountsAreIndexed ==
    \A k \in DOMAIN db["accounts"] :
        \E a \in DOMAIN db["index"] : db["index"][a] = k

\* C4: for every account Account::new has returned, get_account_index of its
\* address returns its public key, and get_account_details of its private key
\* returns the account with its address and the balance Decimal(0.0).
CreatedAccountIsFound ==
    \A c \in created :
        /\ (ret.op = "Account::get_account_index" /\ ret.arg1 = c.address)
               => (ret.ok /\ ret.bytes = c.public_key)
        /\ (ret.op = "Account::get_account_details" /\ ret.arg1 = c.private_key)
               => (ret.ok /\ ret.account.address = c.address
                          /\ ret.account.balance = BalanceDecimal(0)
                          /\ ret.account.timestamp = c.timestamp)

\* two accounts exist and get_account_details opened one of them
CreatedAccountRead ==
    /\ Cardinality(created) = 2
    /\ ret.op = "Account::get_account_details" /\ ret.ok
    /\ \E c \in created : ret.arg1 = c.private_key

\* C6: process_transaction of a transaction between two created accounts
\* returns the record with tx_key filled, and get_transaction of its id with
\* that tx_key yields the sender view {sender, receiver, amount}.
ProcessedTransactionOpens ==
    (/\ ret.op = "Transaction::process_transaction" /\ ret.fault = 0
     /\ \E s \in created, r \in created :
            s # r /\ s.address = ret.data.sender /\ r.address = ret.data.receiver)
        => /\ ret.ok /\ ret.plain.has_tx_key
           /\ LET got == GetTransaction(db, ret.plain.id, TRUE, ret.plain.tx_key, 0, 0)
              IN  got.ok /\ got.val.sender_data =
                      [sender |-> ret.data.sender, receiver |-> ret.data.receiver,
                       amount |-> ret.data.amount]

\* C7: process_transaction of a transaction whose sender is a created account
\* succeeds the first time and returns the "Record exists!" error afterwards;
\* either way the record of the first call is the one stored.
ProcessRejectsOnlyDuplicates ==
    (/\ ret.op = "Transaction::process_transaction" /\ ret.fault = 0
     /\ \E s \in created : s.address = ret.data.sender)
        => /\ HasKey(db, "transactions", SerString(ret.data.id))
           /\ ret.ok \/ (~ret.panic /\ ret.err = RecordExists)

\* C8: every value of the accounts family is an Account whose balance is
\* Binary and opens under the public key that is the row's key.
StoredBalancesOpen ==
    \A k \in DOMAIN db["accounts"] :
        LET public_key == DeString(k)
            account == DeAccount(db["accounts"][k])
        IN  /\ public_key.ok /\ account.ok
            /\ account.val.balance.kind = "Binary"
            /\ CryptoDecrypt(account.val.balance.bytes, public_key.val).ok

\* two account rows are stored
TwoAccountRows == Cardinality(DOMAIN db["accounts"]) = 2

\* the keys and values of every family
StoredBytes ==
    UNION {DOMAIN db[cf] \cup {db[cf][k] : k \in DOMAIN db[cf]} : cf \in Families}

\* every record process_transaction can seal keeps the tx_key out of its bytes
SealedRecordsHideKey ==
    \A data \in InitializedTransactions, s \in Scalars, generated_key \in GeneratedKeys,
       nonce1 \in Nonces, nonce2 \in Nonces :
        LET sealed == SealedTransaction(data, PublicKeyOf(s), generated_key, nonce1, nonce2)
        IN  /\ sealed.ok
            /\ ~Contains(sealed.value, sealed.tx_key)
            /\ ~Contains(sealed.value, generated_key)
            /\ ~Contains(SerString(data.id), sealed.tx_key)

\* C9: no key and no value of any family contains a private key Account::new
\* has returned (as the hex string returned or as the 32 bytes it encodes) or
\* a tx_key process_transaction has returned.
SecretsNotPersisted ==
    /\ \A c \in created, b \in StoredBytes :
           /\ ~Contains(b, c.private_key)
           /\ ~Contains(b, HexDecode(c.private_key).val)
    /\ (ret.op = "Transaction::process_transaction" /\ ret.ok)
           => \A b \in StoredBytes : ~Contains(b, ret.plain.tx_key)
    /\ SealedRecordsHideKey

\* an account was returned and its rows are stored
CreatedAccountStored ==
    \E c \in created :
        /\ HasKey(db, "accounts", SerString(c.public_key))
        /\ HasKey(db, "index", SerString(c.address))

\* C10: get_balance(A', s) with an address A' that passes the address check
\* and the private key s of a created account (A, s) succeeds and returns A,
\* the address of the record under the public key of s, with the balance 0.0;
\* for A' = A it returns (A, 0.0).
BalanceOfRecord ==
    \A c \in created :
        (ret.op = "Account::get_balance" /\ ret.arg2 = c.private_key
             /\ VerifyAddress(ret.arg1).ok)
            => /\ ret.ok
               /\ ret.account.address = c.address
               /\ ret.account.balance = BalanceDecimal(0)

\* get_balance was asked with an address other than the record's
BalanceOfOtherAddress ==
    /\ ret.op = "Account::get_balance" /\ ret.ok
    /\ ret.arg1 # ret.account.address
    /\ \E c \in created : ret.arg2 = c.private_key /\ ret.account.address = c.address

\* the Account a read without the private key hands back for a stored row
RedactedRow(value) ==
    LET account == DeAccount(value).val
    IN  [address |-> account.address, balance |-> BalanceText(Sentinel),
         timestamp |-> account.timestamp]

\* C11: get_account of the address of a created account returns the account
\* with the sentinel Text balance and the address and timestamp of creation,
\* and every element get_accounts returns is a stored row with its balance
\* replaced by the sentinel.
ReadsAreRedacted ==
    /\ \A c \in created :
           (ret.op = "Account::get_account" /\ ret.arg1 = c.address)
               => /\ ret.ok
                  /\ ret.account = [address |-> c.address,
                                     balance |-> BalanceText(Sentinel),
                                     timestamp |-> c.timestamp]
    /\ (ret.op = "Account::get_accounts" /\ ret.ok)
           => \A i \in 1..Len(ret.list) :
                  \E k \in DOMAIN db["accounts"] :
                      ret.list[i] = RedactedRow(db["accounts"][k])

\* C12: get_account and get_balance of an address whose checksum does not
\* match its payload fail with "Not a valid wallet address" and return no
\* account data.
MismatchedChecksumIsRejected ==
    (/\ ret.op \in {"Account::get_account", "Account::get_balance"}
     /\ VerifyAddress(ret.arg1).ok /\ ~VerifyAddress(ret.arg1).matches)
        => /\ ~ret.ok /\ ~ret.panic
           /\ ret.err = "Not a valid wallet address"
           /\ ret.account = NoAccount

\* C13: after process_transaction of a transaction from the address of one
\* created account to the address of another, the record is stored under its
\* id, its receiver view opens under the public key the index maps the
\* receiver address to, its sender view opens under the tx_key returned, and
\* neither key opens the other view.
ViewsSealedPerKey ==
    (/\ ret.op = "Transaction::process_transaction" /\ ret.fault = 0
     /\ \E s \in created, r \in created :
            s # r /\ s.address = ret.data.sender /\ r.address = ret.data.receiver)
        => LET row == StorageGet(db, "transactions", SerString(ret.data.id), 0)
               tx == DeEncryptedTransaction(row.val)
               receiver_key == GetAccountIndex(db, ret.data.receiver, 0, 0)
           IN  /\ ret.ok /\ row.ok /\ tx.ok /\ receiver_key.ok
               /\ CryptoDecrypt(tx.val.receiver_data, receiver_key.val).ok
               /\ CryptoDecrypt(tx.val.sender_data, ret.plain.tx_key).ok
               /\ ~CryptoDecrypt(tx.val.receiver_data, ret.plain.tx_key).ok
               /\ ~CryptoDecrypt(tx.val.sender_data, receiver_key.val).ok

\* a is before b in lexicographic byte order: they agree up to a position
\* where a has ended and b has not, or where a holds the smaller byte
LexBefore(a, b) ==
    \E i \in 1..(Len(a) + 1) :
        /\ \A j \in 1..(i - 1) : j <= Len(b) /\ a[j] = b[j]
        /\ IF i > Len(a) THEN i <= Len(b) ELSE i <= Len(b) /\ a[i] < b[i]

\* the redacted account at place i of the accounts family in ascending order
\* of the serialized public key
AccountAt(i) ==
    LET keys == DOMAIN db["accounts"]
        key == CHOOSE k \in keys : Cardinality({j \in keys : LexBefore(j, k)}) = i - 1
    IN  RedactedRow(db["accounts"][key])

\* C16: for limit >= 1 and page >= 1, get_accounts(page, limit) returns at
\* most limit accounts, namely those at places (page-1)*limit + 1 ..
\* page*limit of the stored accounts in ascending order of the serialized
\* public key; and the pages 1, 2, ... of that limit, taken on the same
\* store, hold each stored account at exactly one place.
PagesPartitionAccounts ==
    (ret.op = "Account::get_accounts" /\ ret.fault = 0 /\ ret.page >= 1 /\ ret.limit >= 1)
        => LET n == Cardinality(DOMAIN db["accounts"])
               first == (ret.page - 1) * ret.limit
           IN  /\ ret.ok
               /\ Len(ret.list) = IF first >= n THEN 0 ELSE Min(ret.limit, n - first)
               /\ \A i \in 1..Len(ret.list) : ret.list[i] = AccountAt(first + i)
               /\ \A j \in 1..n :
                      LET page == ((j - 1) \div ret.limit) + 1
                          place == ((j - 1) % ret.limit) + 1
                          got == GetAccounts(db, page, ret.limit, 0, 0)
                      IN  got.ok /\ Len(got.val) >= place /\ got.val[place] = AccountAt(j)

\* two accounts are stored and page 2 of limit 1 returned the second
SecondPageRead ==
    /\ ret.op = "Account::get_accounts" /\ ret.fault = 0
    /\ ret.page = 2 /\ ret.limit = 1 /\ Len(ret.list) = 1
    /\ Cardinality(DOMAIN db["accounts"]) = 2

(***************************************************************************)
(* Further properties of the store (checked under StoreSpec).              *)
(***************************************************************************)

BatchGetReturnsSortedWindow ==
    (ret.op = "Storage::batch_get" /\ ret.fault = 0)
        => LET keys == DOMAIN db[ret.cf]
               n == Cardinality(keys)
           IN  /\ ret.ok
               /\ Len(ret.list) = IF ret.start >= n THEN 0 ELSE Min(ret.limit, n - ret.start)
               /\ \A i \in 1..Len(ret.list) :
                      /\ ret.list[i][1] \in keys
                      /\ ret.list[i][2] = db[ret.cf][ret.list[i][1]]
                      /\ Cardinality({k \in keys : LexBefore(k, ret.list[i][1])})
                             = ret.start + i - 1

\* batch_get skipped one entry and returned the next, and the key skipped is
\* longer than the key returned
BatchGetSkippedOne ==
    /\ ret.op = "Storage::batch_get" /\ ret.fault = 0
    /\ ret.start = 1 /\ ret.limit >= 1 /\ Len(ret.list) = 1
    /\ \E k \in DOMAIN db[ret.cf] :
           Len(k) > Len(ret.list[1][1]) /\ LexBefore(k, ret.list[1][1])

\* C17: a batch_put on F writes every pair given into F (the last pair of a
\* key wins), leaves the other keys of F and every other family as they
\* were, and leaves the answer of get_analytics(F) as it was: F gains its new
\* keys and the counter of F does not move (or stays absent).
BatchPutBypassesAnalytics ==
    [][(ret'.op = "Storage::batch_put" /\ ret'.fault = 0)
        => LET cf == ret'.cf
               batch == ret'.list
               given == {batch[i][1] : i \in 1..Len(batch)}
           IN  /\ ret'.ok
               /\ \A i \in 1..Len(batch) :
                      (\A j \in (i + 1)..Len(batch) : batch[j][1] # batch[i][1])
                          => (HasKey(db', cf, batch[i][1]) /\ db'[cf][batch[i][1]] = batch[i][2])
               /\ DOMAIN db'[cf] = DOMAIN db[cf] \cup given
               /\ \A k \in DOMAIN db[cf] \ given : db'[cf][k] = db[cf][k]
               /\ \A other \in Families \ {cf} : db'[other] = db[other]
               /\ StorageGetAnalytics(db', CfBytes(cf), 0) = StorageGetAnalytics(db, CfBytes(cf), 0)
               /\ Cardinality(DOMAIN db'[cf])
                      = Cardinality(DOMAIN db[cf]) + Cardinality(given \ DOMAIN db[cf])]_vars

\* a batch_put wrote two keys into accounts and accounts has no counter
BatchLoadedUncounted ==
    /\ ret.op = "Storage::batch_put" /\ ret.ok /\ ret.cf = "accounts" /\ ret.num = 2
    /\ \A i \in 1..2 : HasKey(db, "accounts", ret.list[i][1])
    /\ ~StorageGetAnalytics(db, CfBytes("accounts"), 0).ok

\* the keys a family holds before or after a step, with the keys clients use
KeysAround(cf) == DOMAIN db[cf] \cup DOMAIN db'[cf] \cup StoreKeys

\* the entries a writing call names: the one pair of a put, the pairs of a batch
Targets(call) ==
    IF call.op = "Storage::put" THEN {call.arg1}
    ELSE {call.list[i][1] : i \in 1..Len(call.list)}

\* C18: the store is a map per family. A get of (F, K) returns the value of
\* the last record write to (F, K) that reached the engine and the not-found
\* error when there was none; exists answers true exactly when get succeeds;
\* a put or batch_put on F changes the answer of get only at the keys it
\* names and at the analytics entry named F; get_transaction on an id with
\* no stored transaction fails with the not-found error.
StoreIsMapPerFamily ==
    /\ [](/\ (ret.op = "Storage::get" /\ ~IsCounter(ret.cf, ret.arg1))
              => IF HasKey(written, ret.cf, ret.arg1)
                 THEN ret.ok /\ ret.bytes = written[ret.cf][ret.arg1]
                 ELSE ~ret.ok /\ ret.err = KeyNotFound
          /\ \A cf \in Families : \A key \in DOMAIN written[cf] \cup StoreKeys :
                 ~IsCounter(cf, key)
                     => StorageGet(db, cf, key, 0)
                            = (IF HasKey(written, cf, key) THEN OkB(written[cf][key])
                               ELSE ErrB(KeyNotFound))
          /\ \A cf \in Families : \A key \in DOMAIN db[cf] \cup StoreKeys :
                 /\ StorageExists(db, cf, key, 0).ok
                 /\ StorageExists(db, cf, key, 0).val = StorageGet(db, cf, key, 0).ok
          /\ (ret.op = "Storage::exists")
              => (ret.ok /\ ret.flag = StorageGet(db, ret.cf, ret.arg1, 0).ok)
          /\ (ret.op = "Transaction::get_transaction"
                  /\ ~HasKey(db, "transactions", SerString(ret.arg1)))
              => (~ret.ok /\ ~ret.panic /\ ret.err = KeyNotFound))
    /\ [][(ret'.op \in {"Storage::put", "Storage::batch_put"})
            => \A cf \in Families : \A key \in KeysAround(cf) :
                   (/\ ~(cf = ret'.cf /\ key \in Targets(ret'))
                    /\ ~(cf = "analytics" /\ key = CfBytes(ret'.cf)))
                       => StorageGet(db', cf, key, 0) = StorageGet(db, cf, key, 0)]_vars

\* a get returned the value of the second of two puts to one key of accounts
GetAfterOverwrite ==
    /\ ret.op = "Storage::get" /\ ret.cf = "accounts" /\ ret.ok
    /\ okPuts["accounts"] = 2
    /\ DOMAIN db["accounts"] = {ret.arg1}
    /\ ret.bytes = written["accounts"][ret.arg1]

(***************************************************************************)
(* Properties of the cipher (checked under CipherSpec).                    *)
(***************************************************************************)

\* C19: decrypt of the blob encrypt returned, under the 32-byte key encrypt
\* used, returns the payload; decrypt under any other key, and decrypt of the
\* blob with a bit inverted or bytes cut off, returns an error and no
\* plaintext.
CipherRoundTrip ==
    (ret.op = "Crypto::decrypt")
        => IF ret.blob = ret.sealed /\ ret.key = ret.arg2
           THEN ret.ok /\ ret.bytes = ret.arg1
           ELSE ~ret.ok /\ ret.err # "" /\ ret.bytes = <<>>

\* a blob with a bit of its ciphertext inverted was refused under the right key
FlippedBlobRefused ==
    /\ ret.op = "Crypto::decrypt" /\ ~ret.ok /\ ret.key = ret.arg2
    /\ Len(ret.arg1) = 3 /\ Len(ret.blob) = Len(ret.sealed)
    /\ ret.blob[NONCE_LEN + 1] # ret.sealed[NONCE_LEN + 1]

(***************************************************************************)
(* A further property of the ledger (checked under Spec).                  *)
(***************************************************************************)

\* verify_address answers Ok(true)
PassesVerifyAddress(address) ==
    VerifyAddress(address).ok /\ VerifyAddress(address).matches

\* the address of every wallet Wallet::new can return passes
WalletAddressesPass == \A w \in Wallets : PassesVerifyAddress(w.address)

\* C20: the address of every wallet Wallet::new can return passes
\* verify_address with Ok(true), and so does the address Account::new
\* returns, every key of the index family and the address of every row of
\* the accounts family.
AddressRoundTrip ==
    /\ WalletAddressesPass
    /\ (ret.op = "Account::new" /\ ret.ok) => PassesVerifyAddress(ret.fresh.address)
    /\ \A c \in created : PassesVerifyAddress(c.address)
    /\ \A k \in DOMAIN db["index"] :
           DeString(k).ok /\ PassesVerifyAddress(DeString(k).val)
    /\ \A k \in DOMAIN db["accounts"] :
           DeAccount(db["accounts"][k]).ok
               /\ PassesVerifyAddress(DeAccount(db["accounts"][k]).val.address)

\* Account::new has just returned an address that is an index key and the
\* address of the row the index names
FreshAddressIndexed ==
    /\ ret.op = "Account::new" /\ ret.ok
    /\ HasKey(db, "index", SerString(ret.fresh.address))
    /\ HasKey(db, "accounts", db["index"][SerString(ret.fresh.address)])
    /\ DeAccount(db["accounts"][db["index"][SerString(ret.fresh.address)]]).val.address
           = ret.fresh.address

\* the private key a get_account_details or get_balance call was given
PrivateKeyGiven ==
    IF ret.op = "Account::get_balance" THEN ret.arg2 ELSE ret.arg1

\* C21: get_account_details and get_balance return an error, with no panic
\* and no account, for every private key that is not hex or whose hex
\* decodes to a length other than 32 bytes.
MalformedKeyIsError ==
    (/\ ret.op \in {"Account::get_account_details", "Account::get_balance"}
     /\ \/ ~HexDecode(PrivateKeyGiven).ok
        \/ Len(HexDecode(PrivateKeyGiven).val) # KEY_LEN)
        => (~ret.ok /\ ~ret.panic /\ ret.account = NoAccount)

\* C22: get-account with the private key of a stored account prints what
\* get_account_details returns for that key, the record with its decimal
\* balance, and a subcommand that fails ends with a non-zero exit status.
CliGetAccountPrintsDetails ==
    (ret.op = "cli get-account")
        => /\ GetAccountDetails(db, ret.arg1, 0, 0).ok
                  => (ret.ok /\ ret.account = GetAccountDetails(db, ret.arg1, 0, 0).val)
           /\ ~ret.ok => ret.num # 0

(***************************************************************************)
(* Properties of a Storage shared by threads (checked under ThreadSpec).   *)
(***************************************************************************)

\* thread t is between taking the guard of a put and its put_cf
InsidePut(t) == threads[t].pc \in {"put:locked", "put:checked"}

\* C23: while a thread is inside the critical section of a put, no other
\* thread is inside the critical section of any store operation.
WriterExcludesOthers ==
    \A t \in Threads : InsidePut(t) => ReadGuards = {t}

\* every thread has made one put, all with check_exist on one key, and all
\* have returned
AllPutSameKeyIfAbsent ==
    /\ writes = MaxThreads
    /\ \A t \in Threads :
           /\ threads[t].pc = "idle" /\ threads[t].op = "Storage::put" /\ threads[t].check
           /\ threads[t].key = threads[1].key

\* C24: when every thread has put, with check_exist, one key that was absent,
\* exactly one of the calls has returned Ok, the others the record-exists
\* error, and the key holds the value of the call that returned Ok.
PutIfAbsentIsAtomic ==
    AllPutSameKeyIfAbsent
        => \E t \in Threads :
               /\ threads[t].ok
               /\ db[ThreadFamily][threads[t].key] = threads[t].value
               /\ \A u \in Threads \ {t} : ~threads[u].ok /\ threads[u].err = RecordExists

\* every call made so far was a put that returned Ok, each on a key of its own,
\* and all have returned
AllPutsDistinctAndOk ==
    /\ writes >= 2
    /\ \A t \in Threads : threads[t].pc = "idle"
    /\ okPuts[ThreadFamily] = writes
    /\ Cardinality(DOMAIN db[ThreadFamily]) = writes

\* C25: once N puts on pairwise distinct keys of one family have all returned
\* Ok, get_analytics of the family returns N.
NoIncrementIsLost ==
    AllPutsDistinctAndOk
        => (/\ StorageGetAnalytics(db, CfBytes(ThreadFamily), 0).ok
            /\ StorageGetAnalytics(db, CfBytes(ThreadFamily), 0).val = writes)

(***************************************************************************)
(* Further properties of the ledger (checked under Spec).                  *)
(***************************************************************************)

\* C26: process_transaction returns the index-miss error exactly when the
\* sender address has no index entry, whatever the receiver address is, and
\* then the transactions family and its counter are as they were.
SenderIndexMissDecides ==
    [][(ret'.op = "Transaction::process_transaction" /\ ret'.fault = 0)
        => /\ (~ret'.ok /\ ~ret'.panic /\ ret'.err = KeyNotFound)
                  <=> ~HasKey(db, "index", SerString(ret'.data.sender))
           /\ ~HasKey(db, "index", SerString(ret'.data.sender)) => db' = db]_vars

\* C27: the transaction Transaction::init built, as handed to
\* process_transaction, has an id of exactly 64 characters, the hex encoding
\* of the 256-bit hash of the 8 big-endian bytes of its timestamp, the status
\* "Pending" and no tx_key.
InitIdIsHexOfHash ==
    (ret.op = "Transaction::process_transaction")
        => /\ Len(ret.data.id) = 2 * Len(Hash256(<<>>))
           /\ ret.data.id = HexEncode(Hash256(BE64(ret.data.timestamp)))
           /\ ret.data.status = Pending
           /\ ~ret.data.has_tx_key

\* C28: no Account or Transaction call opens the store while a handle it
\* opened is still alive, so no call ends in the panic of the unwrap in
\* ledger() on a store already locked by the same process.
NoCallReopensTheStore ==
    ~(ret.panic /\ ret.err = LedgerPanic)

\* transactions initialized at the same timestamp have the same id, whatever
\* their sender, receiver, amount and fee
IdFollowsTimestamp ==
    \A a \in InitializedTransactions, b \in InitializedTransactions :
        a.timestamp = b.timestamp => a.id = b.id

\* C29: the id is a function of the timestamp alone, so the transactions
\* family never holds more rows than there are timestamps, and processing a
\* transaction of an indexed sender stores it when no row has its id and
\* returns the record-exists error, changing nothing, when one has.
OneTransactionPerTimestamp ==
    /\ [](/\ IdFollowsTimestamp
          /\ Cardinality(DOMAIN db["transactions"]) <= Cardinality(Timestamps))
    /\ [][(/\ ret'.op = "Transaction::process_transaction" /\ ret'.fault = 0
           /\ HasKey(db, "index", SerString(ret'.data.sender)))
            => IF HasKey(db, "transactions", SerString(ret'.data.id))
               THEN ~ret'.ok /\ ~ret'.panic /\ ret'.err = RecordExists /\ db' = db
               ELSE ret'.ok /\ HasKey(db', "transactions", SerString(ret'.data.id))]_vars

(***************************************************************************)
(* Properties of reading transactions (checked under ViewSpec).            *)
(***************************************************************************)

\* the key a get_transaction call decrypts with: None reads as the empty string
KeyGiven == IF ret.has_arg2 THEN ret.arg2 ELSE <<>>

\* the stored record a get_transaction call was asked for
RecordAsked == DeEncryptedTransaction(db["transactions"][SerString(ret.arg1)]).val

\* C30: on an id that is stored, get_transaction and get_transaction_details
\* return Ok only when the one key given opens both the sender view and the
\* receiver view, and then return both views as sealed; when the key fails
\* to open either view the call is an error with no view in it; with no key
\* given the call is an error.
OneKeyMustOpenBothViews ==
    (/\ ret.op \in {"Transaction::get_transaction", "Transaction::get_transaction_details"}
     /\ HasKey(db, "transactions", SerString(ret.arg1)))
        => /\ ret.ok <=> (/\ CryptoDecrypt(RecordAsked.sender_data, KeyGiven).ok
                          /\ CryptoDecrypt(RecordAsked.receiver_data, KeyGiven).ok)
           /\ ret.ok => (/\ SerTransactionData(ret.views.sender_data)
                                = CryptoDecrypt(RecordAsked.sender_data, KeyGiven).val
                         /\ SerTransactionData(ret.views.receiver_data)
                                = CryptoDecrypt(RecordAsked.receiver_data, KeyGiven).val)
           /\ ~ret.ok => (ret.views = NoViews /\ ~ret.panic)
           /\ ~ret.has_arg2 => ~ret.ok

\* the key given opens the sender view of the stored record and not its
\* receiver view, and the call failed on the receiver view
OnlySenderViewOpened ==
    /\ ret.op = "Transaction::get_transaction"
    /\ HasKey(db, "transactions", SerString(ret.arg1))
    /\ CryptoDecrypt(RecordAsked.sender_data, KeyGiven).ok
    /\ ~ret.ok /\ ret.err = "Receiver decryption failed"

(***************************************************************************)
(* Frame properties of the ledger (checked under Spec).                    *)
(***************************************************************************)

\* every row of family cf is still there, with the same value, after the step
RowsKept(cf) ==
    \A k \in DOMAIN db[cf] : HasKey(db', cf, k) /\ db'[cf][k] = db[cf][k]

\* C31: the balance of every stored account decrypts, under the public key
\* its row is stored at, to 0; no step changes or removes a row of the
\* accounts or the index family; and a process_transaction step leaves both
\* families as they were and writes at most the row of its id in transactions
\* and the counter of transactions.
AccountsNeverChange ==
    /\ [](\A k \in DOMAIN db["accounts"] :
              \E public_key \in {DeString(k)} :
                  /\ public_key.ok
                  /\ \E row \in {DecryptedRow(db, public_key.val, 0)} :
                         row.ok /\ row.val.balance = BalanceDecimal(0))
    /\ [][RowsKept("accounts") /\ RowsKept("index")]_vars
    /\ [][(ret'.op = "Transaction::process_transaction")
            => /\ \A cf \in Families \ {"transactions", "analytics"} : db'[cf] = db[cf]
               /\ \A k \in DOMAIN db'["transactions"] :
                      k = SerString(ret'.data.id) \/ HasKey(db, "transactions", k)
               /\ RowsKept("transactions")
               /\ \A k \in DOMAIN db["analytics"] \cup DOMAIN db'["analytics"] :
                      k # CfBytes("transactions")
                          => StorageGet(db', "analytics", k, 0)
                                 = StorageGet(db, "analytics", k, 0)]_vars

\* process_transaction was called for an amount above 0 with an account of
\* its sender stored
TransferLeftAccounts ==
    /\ ret.op = "Transaction::process_transaction" /\ ret.data.amount > 0
    /\ \E c \in created :
           /\ c.address = ret.data.sender
           /\ HasKey(db, "accounts", SerString(c.public_key))
           /\ HasKey(db, "index", SerString(c.address))

(***************************************************************************)
(* Properties of the counters (checked under StoreSpec).                   *)
(***************************************************************************)

\* what the call just made answered is an error when no single put on cf has
\* returned Ok and a number of at least 1 when one has
AnsweredAsCounted(cf) ==
    IF okPuts[cf] = 0 THEN ~ret.ok /\ ret.err # "" ELSE ret.ok /\ ret.num >= 1

\* the counter of cf, once it answers a number, answers a number at least as
\* large after the step
CounterGrows(cf) ==
    StorageGetAnalytics(db, CfBytes(cf), 0).ok
        => (/\ StorageGetAnalytics(db', CfBytes(cf), 0).ok
            /\ StorageGetAnalytics(db', CfBytes(cf), 0).val
                   >= StorageGetAnalytics(db, CfBytes(cf), 0).val)

EveryOperationReturns ==
    \A t \in Threads : (threads[t].pc # "idle") ~> (threads[t].pc = "idle")

\* a put with check_exist = true has returned Ok while another thread held
\* the shared guard
PutReturnedBesideReader ==
    \E t \in Threads :
        /\ threads[t].pc = "idle" /\ threads[t].op = "Storage::put"
        /\ threads[t].check /\ threads[t].ok
        /\ ReadGuards \ {t} # {}

(***************************************************************************)
(* Frame of the reads (checked under ReadSpec).                            *)
(***************************************************************************)
ReadOperations ==
    {"Storage::get", "Storage::exists", "Storage::batch_get", "Storage::get_analytics",
     "Account::get_account_index", "Account::get_account", "Account::get_account_details",
     "Account::get_balance", "Account::get_accounts", "Account::total_accounts",
     "Transaction::get_transaction", "Transaction::get_transaction_details"}

====
